---- MODULE Spec2Model ----
(***************************************************************************)
(* A model of the hardened revision of the casino WebSocket hub            *)
(* (src/server.js, lines 437-755): the session registry, the two bounded   *)
(* history buffers, the rate limiter, the broadcast engine and the timers. *)
(*                                                                         *)
(* Strings are sequences of one-character strings, so that sanitizing and  *)
(* lower-casing are computed and not assumed.  Characters outside ASCII    *)
(* and quotes, backslash, backtick, tab are written as tokens "Uxxxx".     *)
(***************************************************************************)
EXTENDS Integers, Sequences, FiniteSets, TLC

VARIABLES
  readyState,      \* ws.readyState of each tracked socket; "NONE": no socket in the slot
  clients,         \* the clients map: ws -> ClientInfo, NoClient when ws is no key
  idle,            \* number of further admitted, open, unregistered, silent connections
  chatHistory,     \* the chat buffer
  winHistory,      \* the win buffer
  chatCount,       \* ghost: number of entries ever appended to chatHistory
  winCount,        \* ghost: number of entries ever appended to winHistory
  rateLimits,      \* the rateLimits map: clientId -> [count, t]
  now,             \* Date.now(), in ms
  broadcastTimer,  \* the debounce timer: the handle is set, the timeouts not yet run
  isAlive,         \* ws.isAlive (undefined reads as FALSE)
  nextId,          \* source of fresh uuids
  sent,            \* frames sent to each tracked socket by the last event, in order
  ev,              \* ghost: the last event and its inputs
  attempts,        \* ghost: the chat attempts that reached checkRate: [id, t, ok]
  left,            \* events the run may still take
  pbArr,           \* pushBounded on its own: the buffer
  pbMax,           \*   its capacity
  pbLog,           \*   everything appended to it, in order
  bcRs,            \* broadcast on its own: the readyState of the sockets
  bcExclude,       \*   its excludeWs
  bcFail,          \*   the sockets whose send throws
  bcRes,           \*   what the call did
  proc             \* the process: intervals set, shutdown begun, grace timer, exit status

serverVars == <<readyState, clients, idle, chatHistory, winHistory, chatCount, winCount,
                rateLimits, now, broadcastTimer, isAlive, nextId, sent, ev, attempts, left>>
pbVars == <<pbArr, pbMax, pbLog, bcRs, bcExclude, bcFail, bcRes>>
vars == <<serverVars, pbVars, proc>>

----------------------------------------------------------------------------
(* Program constants *)

MAX_CHAT == 40
MAX_WINS == 50
RL_WINDOW == 10000
RL_MAX_CHAT == 6
MAX_CLIENTS == 500
MAX_AMOUNT == 1000000
BIG_WIN == 500
NICK_MAX == 24
NICK_MIN == 2
CHAT_MAX == 200
GAME_MAX == 40
INIT_CHAT == 25
INIT_WINS == 15
TRIM_FLOOR == 20
SWEEP_WINDOWS == 5
FULL_CODE == 1013
MAX_PAYLOAD == 8192      \* maxPayload: 8 * 1024, in bytes
MAX_FRAME == 8192        \* str.length > 8192

(* Bounds of the model *)

MaxEvents == 5          \* events of a run of Spec
MaxRateEvents == 13     \* events of a run of SpecRate
MaxWinEvents == 4       \* events of a run of SpecWin
MaxJoinEvents == 4       \* inputs of a run of SpecJoin
MaxTimerEvents == 5     \* events of a run of SpecTimer
MaxPingEvents == 8      \* events of a run of SpecPing
MaxSessionEvents == 5   \* events of a run of SpecSession
MaxFrameEvents == 5     \* events of a run of SpecFrames
MaxChatEvents == 5      \* events of a run of SpecChat
MaxMemEvents == 4       \* events of a run of SpecMem
MaxStopEvents == 6      \* events of a run of SpecStop
MaxIndepEvents == 7     \* events of a run of SpecIndep
WarmChats == 4          \* chat frames already sent in the warm start of SpecIndep
MaxOldEvents == 4       \* events of a run of SpecOld
MaxFullEvents == 5      \* events of a run of SpecFull
MaxKeyEvents == 7       \* events of a run of SpecKeys
MaxCap == 5             \* small capacities tried by SpecPB
MaxPushes == 55         \* appends of a run of SpecPB
TickShort == 5000       \* a short step of the clock, half a window
TickLong == 50001       \* a long step of the clock, past the sweep's cutoff

Ws == {"w1", "w2", "w3"}
NoWs == "none"
NoClient == [id |-> 0, nickname |-> <<>>, registered |-> FALSE, present |-> FALSE]

Min(a, b) == IF a < b THEN a ELSE b
Max(a, b) == IF a > b THEN a ELSE b

----------------------------------------------------------------------------
(* Strings *)

UpperChars == <<"A","B","C","D","E","F","G","H","I","J","K","L","M",
                "N","O","P","Q","R","S","T","U","V","W","X","Y","Z">>
LowerChars == <<"a","b","c","d","e","f","g","h","i","j","k","l","m",
                "n","o","p","q","r","s","t","u","v","w","x","y","z">>

toLowerChar(c) ==
  IF \E i \in 1..Len(UpperChars) : UpperChars[i] = c
  THEN LowerChars[CHOOSE i \in 1..Len(UpperChars) : UpperChars[i] = c]
  ELSE c

toLowerCase(s) == [i \in 1..Len(s) |-> toLowerChar(s[i])]

IsSpace(c) == c \in {" ", "U0009", "U000A"}

RECURSIVE trimStart(_)
trimStart(s) == IF s # <<>> /\ IsSpace(Head(s)) THEN trimStart(Tail(s)) ELSE s

RECURSIVE trimEnd(_)
trimEnd(s) ==
  IF s # <<>> /\ IsSpace(s[Len(s)]) THEN trimEnd(SubSeq(s, 1, Len(s) - 1)) ELSE s

trim(s) == trimEnd(trimStart(s))

\* no slice(0, maxLen)
slice0_whole(s, n) == s

slice0(s, n) == SubSeq(s, 1, Min(n, Len(s)))

\* slice(0, n) in the place of slice(-n)
sliceLast_oldest(s, n) == SubSeq(s, 1, IF Len(s) < n THEN Len(s) ELSE n)

\* s.slice(-n)
sliceLast(s, n) == SubSeq(s, Max(1, Len(s) - n + 1), Len(s))

escapeChar(c) ==
  CASE c = "<" -> <<"&","l","t",";">>
    [] c = ">" -> <<"&","g","t",";">>
    [] c = "U0022" -> <<"&","q","u","o","t",";">>
    [] c = "U0027" -> <<"&","#","3","9",";">>
    [] OTHER -> <<c>>

RECURSIVE escape(_)
escape(s) ==
  \* every character replaced in place; the halves keep the recursion shallow
  IF s = <<>> THEN <<>>
  ELSE IF Len(s) = 1 THEN escapeChar(s[1])
  ELSE escape(SubSeq(s, 1, Len(s) \div 2)) \o escape(SubSeq(s, Len(s) \div 2 + 1, Len(s)))

sanitize(str, maxLen) == escape(slice0(trim(str), maxLen))

NickStripped == {"<", ">", "U0022", "U0027", "/", "U005C", "U0060"}

stripNick(s) == SelectSeq(s, LAMBDA c : c \notin NickStripped)

\* .replace(/\s+/g, ' ')
RECURSIVE collapseSpaces(_)
collapseSpaces(s) ==
  IF s = <<>> THEN <<>>
  ELSE IF IsSpace(Head(s))
       THEN <<" ">> \o collapseSpaces(trimStart(s))
       ELSE <<Head(s)>> \o collapseSpaces(Tail(s))

sanitizeNick(str) == trim(collapseSpaces(stripNick(slice0(trim(str), NICK_MAX))))

includes(s, b) ==
  \E i \in 1..(Len(s) - Len(b) + 1) : SubSeq(s, i, i + Len(b) - 1) = b

BAD_NICKS ==
  { <<"a","d","m","i","n">>,
    <<"m","o","d","e","r","a","t","o","r">>,
    <<"U0441","U0438","U0441","U0442","U0435","U043C","U0430">>,
    <<"s","y","s","t","e","m">>,
    <<"s","e","r","v","e","r">>,
    <<"b","o","t">> }

\* the denylist matched against the whole nickname
isBadNick_exact(nick) == toLowerCase(nick) \in BAD_NICKS

isBadNick(nick) == \E b \in BAD_NICKS : includes(toLowerCase(nick), b)

DefaultGame == <<"U0418","U0433","U0440","U0430">>

\* toLocaleTimeString with hour and minute only: the minute of the day
formatTime(t) == (t \div 60000) % 1440

----------------------------------------------------------------------------
(* Helpers of the server *)

pushBounded_noShift(arr, item, max) == Append(arr, item)

pushBounded_dropNewest(arr, item, max) ==
  IF Len(arr) >= max THEN arr ELSE Append(arr, item)

pushBounded(arr, item, max) ==
  LET a == Append(arr, item) IN IF Len(a) > max THEN Tail(a) ELSE a

EmptyOut == [w \in Ws |-> <<>>]

\* sendTo on top of the frames `out` already sent by this event
sendTo(out, rs, ws, data) ==
  IF rs[ws] # "OPEN" THEN out ELSE [out EXCEPT ![ws] = Append(@, data)]

\* wss.clients.forEach, in the order of the set
SocketOrder == <<"w1", "w2", "w3">>

\* What a fan-out has done so far: the frames delivered, the sockets on which
\* send was called, and whether an exception left the loop.
FanStart(out) == [out |-> out, tried |-> <<>>, thrown |-> FALSE]

\* the loop without the try/catch around ws.send
RECURSIVE fanOut_noCatch(_, _, _, _, _, _)
fanOut_noCatch(order, acc, rs, data, excludeWs, fail) ==
  IF order = <<>> \/ acc.thrown THEN acc
  ELSE LET w == Head(order)
           step == IF w # excludeWs /\ rs[w] = "OPEN"
                   THEN IF w \in fail
                        THEN [acc EXCEPT !.tried = Append(@, w), !.thrown = TRUE]
                        ELSE [acc EXCEPT !.tried = Append(@, w),
                                         !.out[w] = Append(@, data)]
                   ELSE acc
       IN fanOut_noCatch(Tail(order), step, rs, data, excludeWs, fail)

\* the loop of broadcast; a send to a socket of fail throws and is caught
RECURSIVE fanOutLoop(_, _, _, _, _, _)
fanOutLoop(order, acc, rs, data, excludeWs, fail) ==
  IF order = <<>> THEN acc
  ELSE LET w == Head(order)
           step == IF w # excludeWs /\ rs[w] = "OPEN"
                   THEN IF w \in fail
                        THEN [acc EXCEPT !.tried = Append(@, w)]
                        ELSE [acc EXCEPT !.tried = Append(@, w),
                                         !.out[w] = Append(@, data)]
                   ELSE acc
       IN fanOutLoop(Tail(order), step, rs, data, excludeWs, fail)

fanOut(order, acc, rs, data, excludeWs, fail) ==
  fanOutLoop(order, acc, rs, data, excludeWs, fail)

\* broadcast without the test of readyState
broadcast_anyState(out, rs, data, excludeWs) ==
  [w \in Ws |-> IF w # excludeWs THEN Append(out[w], data) ELSE out[w]]

\* broadcast when no send throws
broadcast(out, rs, data, excludeWs) ==
  fanOut(SocketOrder, FanStart(out), rs, data, excludeWs, {}).out

broadcastAll(out, rs, data) == broadcast(out, rs, data, NoWs)

\* wss.clients: the sockets of the ws server, closing ones included
wssClients(rs) == {w \in Ws : rs[w] # "NONE"}
wssSize(rs, n) == Cardinality(wssClients(rs)) + n
clientsSize(cl, n) == Cardinality({w \in Ws : cl[w].present}) + n

getOnlineCount_beforeAdmit(rs, n) == Cardinality({w \in Ws : rs[w] = "OPEN"}) + n - 1

getOnlineCount(rs, n) == Cardinality({w \in Ws : rs[w] = "OPEN"}) + n

isNickTaken_caseSensitive(cl, nick, excludeId) ==
  \E w \in Ws :
    cl[w].present /\ cl[w].id # excludeId /\ cl[w].nickname # <<>> /\ cl[w].nickname = nick

isNickTaken(cl, nick, excludeId) ==
  LET low == toLowerCase(nick) IN
  \E w \in Ws :
    /\ cl[w].present
    /\ cl[w].id # excludeId
    /\ cl[w].nickname # <<>>
    /\ toLowerCase(cl[w].nickname) = low

\* Math.floor(Number(x) || 0) of the number a.n + a.half / 2
floorAmount(a) == a.n

\* the guards of the message handler
alreadyRegistered_never(client) == FALSE
alreadyRegistered(client) == client.registered

chatNeedsLogin_never(client) == FALSE
chatNeedsLogin(client) == ~client.registered

winDropped_noLogin(client, amount) == amount <= 0 \/ amount > MAX_AMOUNT
winDropped_capExclusive(client, amount) ==
  ~client.registered \/ amount <= 0 \/ amount >= MAX_AMOUNT
winDropped(client, amount) == ~client.registered \/ amount <= 0 \/ amount > MAX_AMOUNT

isBigWin_strict(amount) == amount > BIG_WIN
isBigWin(amount) == amount >= BIG_WIN

\* the hard cap of the connection handler
serverFull_offByOne(size) == size > MAX_CLIENTS + 1
serverFull(size) == size > MAX_CLIENTS

HasRate(rl, id) == id \in DOMAIN rl

checkRate_offByOne(rl, clientId, t) ==
  LET fresh == ~HasRate(rl, clientId) \/ t - rl[clientId].t > RL_WINDOW
      cur == IF fresh THEN [count |-> 0, t |-> t] ELSE rl[clientId]
      nxt == [cur EXCEPT !.count = @ + 1]
  IN [ok |-> nxt.count < RL_MAX_CHAT,
      rl |-> [i \in DOMAIN rl \cup {clientId} |-> IF i = clientId THEN nxt ELSE rl[i]]]

\* checkRate that leaves the count alone once the limit is reached
checkRate_skipsDenied(rl, clientId, t) ==
  LET fresh == ~HasRate(rl, clientId) \/ t - rl[clientId].t > RL_WINDOW
      cur == IF fresh THEN [count |-> 0, t |-> t] ELSE rl[clientId]
      nxt == IF cur.count >= RL_MAX_CHAT THEN cur ELSE [cur EXCEPT !.count = @ + 1]
  IN [ok |-> cur.count < RL_MAX_CHAT,
      rl |-> [i \in DOMAIN rl \cup {clientId} |-> IF i = clientId THEN nxt ELSE rl[i]]]

\* the result and the map afterwards
checkRate(rl, clientId, t) ==
  LET fresh == ~HasRate(rl, clientId) \/ t - rl[clientId].t > RL_WINDOW
      cur == IF fresh THEN [count |-> 0, t |-> t] ELSE rl[clientId]
      nxt == [cur EXCEPT !.count = @ + 1]
  IN [ok |-> nxt.count <= RL_MAX_CHAT,
      rl |-> [i \in DOMAIN rl \cup {clientId} |-> IF i = clientId THEN nxt ELSE rl[i]]]

rateDelete_forgets(rl, ids) == rl

\* rateLimits.clear() in the place of delete
rateDelete_all(rl, ids) == <<>>

rateDelete(rl, ids) == [i \in DOMAIN rl \ ids |-> rl[i]]

ChatMsg(uid, c, text, t, n) ==
  [type |-> "chat", id |-> uid, clientId |-> c.id, nickname |-> c.nickname,
   text |-> text, time |-> formatTime(t), seq |-> n]

WinMsg(c, amount, game, t, n) ==
  [type |-> "win", clientId |-> c.id, nickname |-> c.nickname, amount |-> amount,
   game |-> game, time |-> formatTime(t), seq |-> n]

\* the text of a system message: its template and what is substituted
SysMsg(tpl, nick, amount, game, t, n) ==
  [type |-> "system_message",
   text |-> [tpl |-> tpl, nick |-> nick, amount |-> amount, game |-> game],
   time |-> formatTime(t), seq |-> n]

JoinMsg(nick, t, n) == SysMsg("join", nick, 0, <<>>, t, n)
ByeMsg(nick, t, n) == SysMsg("bye", nick, 0, <<>>, t, n)
BigWinMsg(nick, amount, game, t, n) == SysMsg("bigwin", nick, amount, game, t, n)

NoAmount == [n |-> 0, half |-> 0]
Event(op, w) ==
  [op |-> op, w |-> w, nick |-> <<>>, text |-> <<>>, amount |-> NoAmount, game |-> <<>>]

----------------------------------------------------------------------------
(* Inputs *)

NickInputs ==
  { <<"A","l">>,                 \* valid
    <<" ","a","<","L"," ">>,     \* sanitized to "aL", equal to "Al" ignoring case
    <<"E","v">>,                 \* valid, another name
    <<"x">>,                     \* too short
    <<"B","o","t","s">> }        \* contains a denylisted name

TextInputs == { <<"h","<">>, <<" ">> }

AmountInputs ==
  { [n |-> 0, half |-> 0], [n |-> 0, half |-> 1], [n |-> 1, half |-> 0],
    [n |-> 1, half |-> 1], [n |-> 499, half |-> 0], [n |-> 500, half |-> 0],
    [n |-> 1000000, half |-> 0], [n |-> 1000000, half |-> 1],
    [n |-> 1000001, half |-> 0] }

GameInputs == { <<>>, <<"s","l","o","t">> }

\* the inputs of Spec, where every event interleaves with every other
MainAmounts == { [n |-> 0, half |-> 0], [n |-> 1, half |-> 0], [n |-> 500, half |-> 0] }
MainGames == { <<"s","l","o","t">> }

----------------------------------------------------------------------------
(* Initial states.  A fresh server has empty buffers and no connection.  A    *)
(* server that has run for a while is represented by one state it reaches:   *)
(* a session with id 0 registered as "Zed", chatted and won many times and   *)
(* closed, and MAX_CLIENTS - 2 silent unregistered connections are open.     *)

\* let broadcastTimer = null, and no timeout waiting in the event loop
NoTimer == [handle |-> FALSE, pending |-> 0]

\* scheduleOnlineBroadcast without its early return
scheduleOnlineBroadcast_noGuard(t) == [handle |-> TRUE, pending |-> t.pending + 1]

\* scheduleOnlineBroadcast: a timeout is set only when the handle is null
scheduleOnlineBroadcast(t) ==
  IF t.handle THEN t ELSE [handle |-> TRUE, pending |-> t.pending + 1]

Zed == [id |-> 0, nickname |-> <<"Z","e","d">>, registered |-> TRUE, present |-> TRUE]

OldChat(k) ==
  [i \in 1..k |-> IF i < k THEN ChatMsg(0 - i, Zed, <<"g","g">>, 0, i)
                  ELSE ByeMsg(Zed.nickname, 0, k)]
OldWins(k) == [i \in 1..k |-> WinMsg(Zed, 7, <<"s","l","o","t">>, 0, i)]

ServerInit(busy, budget) ==
  /\ readyState = [w \in Ws |-> "NONE"]
  /\ clients = [w \in Ws |-> NoClient]
  /\ idle = IF busy THEN MAX_CLIENTS - 2 ELSE 0
  /\ chatHistory = IF busy THEN OldChat(MAX_CHAT - 1) ELSE <<>>
  /\ winHistory = IF busy THEN OldWins(MAX_WINS - 1) ELSE <<>>
  /\ chatCount = Len(chatHistory)
  /\ winCount = Len(winHistory)
  /\ rateLimits = <<>>
  /\ now = 0
  /\ broadcastTimer = NoTimer
  /\ isAlive = [w \in Ws |-> FALSE]
  /\ nextId = 1
  /\ sent = EmptyOut
  /\ ev = Event("start", NoWs)
  /\ attempts = <<>>
  /\ left = budget

\* the process after server.listen: the four intervals are set, no signal yet
Running == [intervals |-> TRUE, stopping |-> FALSE, grace |-> FALSE, exit |-> "none"]

NoRes == [done |-> FALSE, out |-> EmptyOut, tried |-> <<>>, thrown |-> FALSE]

BcIdle == bcRs = [w \in Ws |-> "NONE"] /\ bcExclude = NoWs /\ bcFail = {} /\ bcRes = NoRes

PbIdle == pbArr = <<>> /\ pbMax = 0 /\ pbLog = <<>> /\ BcIdle /\ proc = Running

Init == (\E busy \in BOOLEAN : ServerInit(busy, MaxEvents)) /\ PbIdle

----------------------------------------------------------------------------
(* Events of the server.  Each takes one unit of the run's budget and        *)
(* records itself in ev and the frames it sent in sent.                      *)

Charged(e, out) == left > 0 /\ left' = left - 1 /\ ev' = e /\ sent' = out /\ UNCHANGED pbVars

Took(e, out) == Charged(e, out) /\ UNCHANGED proc

\* an event that is not charged to the budget
Free(e, out) == left' = left /\ ev' = e /\ sent' = out /\ UNCHANGED pbVars

Fired(e, out) == Free(e, out) /\ UNCHANGED proc

InitMsg(id, rs) ==
  [type |-> "init", clientId |-> id,
   chatHistory |-> sliceLast(chatHistory, INIT_CHAT),
   winHistory |-> sliceLast(winHistory, INIT_WINS),
   onlineCount |-> getOnlineCount(rs, idle)]

CloseFrame(code) == [type |-> "close", code |-> code]

\* Sockets are interchangeable: a new connection takes the first free slot.
FirstFree(rs) ==
  IF rs["w1"] = "NONE" THEN "w1" ELSE IF rs["w2"] = "NONE" THEN "w2" ELSE "w3"

\* wss.on('connection'): the ws server has put the socket into wss.clients
Connect(w) ==
  /\ readyState[w] = "NONE"
  /\ w = FirstFree(readyState)
  /\ LET rs == [readyState EXCEPT ![w] = "OPEN"] IN
     IF serverFull(wssSize(rs, idle))
     THEN /\ readyState' = [readyState EXCEPT ![w] = "CLOSING"]
          /\ Took(Event("connect", w), [EmptyOut EXCEPT ![w] = <<CloseFrame(FULL_CODE)>>])
          /\ UNCHANGED <<clients, broadcastTimer, isAlive, nextId>>
     ELSE /\ readyState' = rs
          /\ clients' = [clients EXCEPT ![w] =
                           [id |-> nextId, nickname |-> <<>>, registered |-> FALSE,
                            present |-> TRUE]]
          /\ nextId' = nextId + 1
          /\ Took(Event("connect", w), sendTo(EmptyOut, rs, w, InitMsg(nextId, rs)))
          /\ broadcastTimer' = scheduleOnlineBroadcast(broadcastTimer)
          /\ isAlive' = [isAlive EXCEPT ![w] = TRUE]
  /\ UNCHANGED <<idle, chatHistory, winHistory, chatCount, winCount, rateLimits, now,
                 attempts>>

\* the same handler for a connection that stays silent and unregistered
IdleConnect ==
  /\ ~serverFull(wssSize(readyState, idle) + 1)
  /\ idle' = idle + 1
  /\ broadcastTimer' = scheduleOnlineBroadcast(broadcastTimer)
  /\ Took(Event("idle_connect", NoWs), EmptyOut)
  /\ UNCHANGED <<readyState, clients, chatHistory, winHistory, chatCount, winCount,
                 rateLimits, now, isAlive, nextId, attempts>>

\* a frame reaches the message handler of an admitted socket
Receives(w) == readyState[w] = "OPEN" /\ clients[w].present

Err(m) == [type |-> "error", message |-> m]
RegErr(m) == [type |-> "register_error", message |-> m]

Register(w, raw) ==
  /\ Receives(w)
  /\ LET client == clients[w]
         nick == sanitizeNick(raw)
         e == [Event("register", w) EXCEPT !.nick = raw]
         refuse(m) == /\ Took(e, sendTo(EmptyOut, readyState, w, RegErr(m)))
                      /\ UNCHANGED <<clients, chatHistory, chatCount, broadcastTimer>>
     IN IF alreadyRegistered(client)
        THEN /\ Took(e, EmptyOut)
             /\ UNCHANGED <<clients, chatHistory, chatCount, broadcastTimer>>
        ELSE IF Len(nick) < NICK_MIN THEN refuse("min2")
        ELSE IF Len(nick) > NICK_MAX THEN refuse("max24")
        ELSE IF isNickTaken(clients, nick, client.id) THEN refuse("taken")
        ELSE IF isBadNick(nick) THEN refuse("forbidden")
        ELSE LET joinMsg == JoinMsg(nick, now, chatCount + 1)
                 ok == [type |-> "register_ok", nickname |-> nick, clientId |-> client.id]
             IN /\ clients' = [clients EXCEPT ![w].nickname = nick, ![w].registered = TRUE]
                /\ chatHistory' = pushBounded(chatHistory, joinMsg, MAX_CHAT)
                /\ chatCount' = chatCount + 1
                /\ broadcastTimer' = scheduleOnlineBroadcast(broadcastTimer)
                /\ Took(e, broadcastAll(sendTo(EmptyOut, readyState, w, ok),
                                        readyState, joinMsg))
  /\ UNCHANGED <<readyState, idle, winHistory, winCount, rateLimits, now, isAlive, nextId,
                 attempts>>

Chat(w, raw) ==
  /\ Receives(w)
  /\ LET client == clients[w]
         e == [Event("chat", w) EXCEPT !.text = raw]
     IN IF chatNeedsLogin(client)
        THEN /\ Took(e, sendTo(EmptyOut, readyState, w, Err("login_first")))
             /\ UNCHANGED <<chatHistory, chatCount, rateLimits, nextId, attempts>>
        ELSE LET r == checkRate(rateLimits, client.id, now)
                 text == sanitize(raw, CHAT_MAX)
                 msg == ChatMsg(nextId, client, text, now, chatCount + 1)
                 out == IF ~r.ok THEN sendTo(EmptyOut, readyState, w, Err("too_many"))
                        ELSE IF text = <<>> THEN EmptyOut
                        ELSE broadcastAll(EmptyOut, readyState, msg)
             IN /\ rateLimits' = r.rl
                /\ attempts' = Append(attempts,
                                 [id |-> client.id, t |-> now,
                                  denied |-> out[w] = <<Err("too_many")>>])
                /\ Took(e, out)
                /\ IF r.ok /\ text # <<>>
                   THEN /\ chatHistory' = pushBounded(chatHistory, msg, MAX_CHAT)
                        /\ chatCount' = chatCount + 1
                        /\ nextId' = nextId + 1
                   ELSE UNCHANGED <<chatHistory, chatCount, nextId>>
  /\ UNCHANGED <<readyState, clients, idle, winHistory, winCount, now, broadcastTimer,
                 isAlive>>

Win(w, a, g) ==
  /\ Receives(w)
  /\ LET client == clients[w]
         e == [Event("win", w) EXCEPT !.amount = a, !.game = g]
         amount == floorAmount(a)
     IN IF winDropped(client, amount)
        THEN /\ Took(e, EmptyOut)
             /\ UNCHANGED <<chatHistory, winHistory, chatCount, winCount>>
        ELSE LET game == sanitize(IF g = <<>> THEN DefaultGame ELSE g, GAME_MAX)
                 win == WinMsg(client, amount, game, now, winCount + 1)
                 sys == BigWinMsg(client.nickname, amount, game, now, chatCount + 1)
                 out == broadcastAll(EmptyOut, readyState, win)
             IN /\ winHistory' = pushBounded(winHistory, win, MAX_WINS)
                /\ winCount' = winCount + 1
                /\ IF isBigWin(amount)
                   THEN /\ chatHistory' = pushBounded(chatHistory, sys, MAX_CHAT)
                        /\ chatCount' = chatCount + 1
                        /\ Took(e, broadcastAll(out, readyState, sys))
                   ELSE /\ UNCHANGED <<chatHistory, chatCount>>
                        /\ Took(e, out)
  /\ UNCHANGED <<readyState, clients, idle, rateLimits, now, broadcastTimer, isAlive,
                 nextId, attempts>>

\* case 'ping'
PingFrame(w) ==
  /\ Receives(w)
  /\ Took(Event("ping", w), sendTo(EmptyOut, readyState, w, [type |-> "pong"]))
  /\ UNCHANGED <<readyState, clients, idle, chatHistory, winHistory, chatCount, winCount,
                 rateLimits, now, broadcastTimer, isAlive, nextId, attempts>>

\* what the decoding of a frame can give
FrameKinds == {"invalid_json", "no_type", "ping"}

\* Frames are taken to be ASCII, one byte for each character, which is the
\* least a frame of that many characters weighs.
FrameLengths == {MAX_FRAME, MAX_FRAME + 1}

\* A frame of len characters arrives on an admitted socket.  The WebSocket
\* server is created with maxPayload: it fails a message of more bytes with
\* "message too big" and closes the socket before any 'message' event; the
\* socket's 'close' event follows.  A frame that is let through reaches
\* ws.on('message'): the length test, JSON.parse in try/catch, the switch.
RawFrame(w, len, kind) ==
  /\ Receives(w)
  /\ LET e == [Event("frame", w) EXCEPT !.text = <<kind>>, !.amount = [n |-> len, half |-> 0]]
     IN IF len > MAX_PAYLOAD
        THEN /\ readyState' = [readyState EXCEPT ![w] = "CLOSING"]
             /\ Took(e, [EmptyOut EXCEPT ![w] = <<CloseFrame("message_too_big")>>])
        ELSE /\ readyState' = readyState
             /\ Took(e, IF len <= MAX_FRAME /\ kind = "ping"
                        THEN sendTo(EmptyOut, readyState, w, [type |-> "pong"])
                        ELSE EmptyOut)
  /\ UNCHANGED <<clients, idle, chatHistory, winHistory, chatCount, winCount,
                 rateLimits, now, broadcastTimer, isAlive, nextId, attempts>>

\* ws.on('pong')
Pong(w) ==
  /\ Receives(w)
  /\ isAlive' = [isAlive EXCEPT ![w] = TRUE]
  /\ Took(Event("pong", w), EmptyOut)
  /\ UNCHANGED <<readyState, clients, idle, chatHistory, winHistory, chatCount, winCount,
                 rateLimits, now, broadcastTimer, nextId, attempts>>

\* a frame handled when clients.get(ws) is undefined: if (!client) return
LateFrame(w) ==
  /\ ~clients[w].present
  /\ Took(Event("late_frame", w), EmptyOut)
  /\ UNCHANGED <<readyState, clients, idle, chatHistory, winHistory, chatCount, winCount,
                 rateLimits, now, broadcastTimer, isAlive, nextId, attempts>>

\* the close handler without clients.delete(ws)
clientsDelete_keeps(cl, w) == cl

\* clients.delete(ws)
clientsDelete(cl, w) == [cl EXCEPT ![w] = NoClient]

\* The socket's 'close' event: the ws server drops it from wss.clients, then
\* ws.on('close') runs, which only an admitted socket has.
Close(w) ==
  /\ readyState[w] # "NONE"
  /\ LET client == clients[w]
         rs == [readyState EXCEPT ![w] = "NONE"]
         bye == ByeMsg(client.nickname, now, chatCount + 1)
     IN /\ readyState' = rs
        /\ isAlive' = [isAlive EXCEPT ![w] = FALSE]
        /\ IF ~client.present
           THEN /\ Took(Event("close", w), EmptyOut)
                /\ UNCHANGED <<clients, chatHistory, chatCount, rateLimits, broadcastTimer>>
           ELSE /\ IF client.registered /\ client.nickname # <<>>
                   THEN /\ chatHistory' = pushBounded(chatHistory, bye, MAX_CHAT)
                        /\ chatCount' = chatCount + 1
                        /\ Took(Event("close", w), broadcast(EmptyOut, rs, bye, w))
                   ELSE /\ UNCHANGED <<chatHistory, chatCount>>
                        /\ Took(Event("close", w), EmptyOut)
                /\ rateLimits' = rateDelete(rateLimits, {client.id})
                /\ clients' = clientsDelete(clients, w)
                /\ broadcastTimer' = scheduleOnlineBroadcast(broadcastTimer)
  /\ UNCHANGED <<idle, winHistory, winCount, now, nextId, attempts>>

\* ws.on('close') of a silent unregistered connection
IdleClose ==
  /\ idle > 0
  /\ idle' = idle - 1
  /\ broadcastTimer' = scheduleOnlineBroadcast(broadcastTimer)
  /\ Took(Event("idle_close", NoWs), EmptyOut)
  /\ UNCHANGED <<readyState, clients, chatHistory, winHistory, chatCount, winCount,
                 rateLimits, now, isAlive, nextId, attempts>>

OnlineCountMsg(rs) == [type |-> "online_count", count |-> getOnlineCount(rs, idle)]

\* the callback of the debounce timer set by scheduleOnlineBroadcast
DebounceOut == broadcastAll(EmptyOut, readyState, OnlineCountMsg(readyState))

DebounceBody ==
  /\ broadcastTimer.pending > 0
  /\ broadcastTimer' = [handle |-> FALSE, pending |-> broadcastTimer.pending - 1]
  /\ UNCHANGED <<readyState, clients, idle, chatHistory, winHistory, chatCount, winCount,
                 rateLimits, now, isAlive, nextId, attempts>>

\* the debounce timer fires
DebounceFire == DebounceBody /\ Took(Event("debounce", NoWs), DebounceOut)

\* the same, not charged to the budget: a timer that an event has set fires
\* without a further input
DebounceDue == DebounceBody /\ Fired(Event("debounce", NoWs), DebounceOut)

\* COUNT_IV
CountTick ==
  /\ Took(Event("count_iv", NoWs), broadcastAll(EmptyOut, readyState, OnlineCountMsg(readyState)))
  /\ UNCHANGED <<readyState, clients, idle, chatHistory, winHistory, chatCount, winCount,
                 rateLimits, now, broadcastTimer, isAlive, nextId, attempts>>

\* PING_IV: a socket that is not alive is terminated, its 'close' event follows;
\* the silent connections answer every ping
terminates_always(alive) == TRUE

\* if (!ws.isAlive) { ws.terminate(); return; }
terminates(alive) == ~alive

PingRound ==
  /\ readyState' = [w \in Ws |->
                      IF readyState[w] # "NONE" /\ terminates(isAlive[w]) THEN "CLOSING"
                      ELSE readyState[w]]
  /\ isAlive' = [w \in Ws |-> FALSE]
  /\ Took(Event("ping_iv", NoWs),
          [w \in Ws |-> IF readyState[w] = "OPEN" /\ ~terminates(isAlive[w])
                        THEN <<[type |-> "ws_ping"]>> ELSE <<>>])
  /\ UNCHANGED <<clients, idle, chatHistory, winHistory, chatCount, winCount, rateLimits,
                 now, broadcastTimer, nextId, attempts>>

\* the trim keeping the oldest entries
trimTo_oldest(arr, n) == SubSeq(arr, 1, Min(Len(arr), n))

\* while (arr.length > n) arr.shift()
trimTo(arr, n) == sliceLast(arr, Min(Len(arr), n))

\* MEM_IV; over: the heap is above the threshold
MemWatch(over) ==
  /\ chatHistory' = IF over THEN trimTo(chatHistory, TRIM_FLOOR) ELSE chatHistory
  /\ winHistory' = IF over THEN trimTo(winHistory, TRIM_FLOOR) ELSE winHistory
  /\ Took([Event("mem_iv", NoWs) EXCEPT !.nick = IF over THEN <<"over">> ELSE <<>>], EmptyOut)
  /\ UNCHANGED <<readyState, clients, idle, chatCount, winCount, rateLimits, now,
                 broadcastTimer, isAlive, nextId, attempts>>

\* RL_IV
\* the sweep with a cutoff of now
staleIds_anyAge(rl, t) == {i \in DOMAIN rl : rl[i].t < t}

\* the ids the sweep deletes at time t
staleIds(rl, t) ==
  LET cutoff == t - RL_WINDOW * SWEEP_WINDOWS IN {i \in DOMAIN rl : rl[i].t < cutoff}

RateSweep ==
  /\ rateLimits' = rateDelete(rateLimits, staleIds(rateLimits, now))
  /\ Took(Event("rl_iv", NoWs), EmptyOut)
  /\ UNCHANGED <<readyState, clients, idle, chatHistory, winHistory, chatCount, winCount,
                 now, broadcastTimer, isAlive, nextId, attempts>>

\* time passes
Tick(d) ==
  /\ now' = now + d
  /\ Took(Event("tick", NoWs), EmptyOut)
  /\ UNCHANGED <<readyState, clients, idle, chatHistory, winHistory, chatCount, winCount,
                 rateLimits, broadcastTimer, isAlive, nextId, attempts>>

Next ==
  \/ \E w \in Ws : Connect(w)
  \/ IdleConnect
  \/ \E w \in Ws, raw \in NickInputs : Register(w, raw)
  \/ \E w \in Ws, raw \in TextInputs : Chat(w, raw)
  \/ \E w \in Ws, a \in MainAmounts, g \in MainGames : Win(w, a, g)
  \/ \E w \in Ws : PingFrame(w)
  \/ \E w \in Ws : Pong(w)
  \/ \E w \in Ws : Close(w)
  \/ IdleClose
  \/ DebounceFire
  \/ CountTick
  \/ PingRound
  \/ \E over \in BOOLEAN : MemWatch(over)
  \/ RateSweep
  \/ \E d \in {TickShort, TickLong} : Tick(d)

Spec == Init /\ [][Next]_vars

----------------------------------------------------------------------------
(* pushBounded on its own: a buffer of some capacity, empty at first, and    *)
(* the numbered items appended to it.                                        *)

PbCaps == (1..MaxCap) \cup {MAX_CHAT, MAX_WINS}

InitPB ==
  /\ ServerInit(FALSE, 0)
  /\ BcIdle
  /\ proc = Running
  /\ pbMax \in PbCaps
  /\ pbArr = <<>>
  /\ pbLog = <<>>

PushStep ==
  /\ Len(pbLog) < MaxPushes
  /\ pbArr' = pushBounded(pbArr, Len(pbLog) + 1, pbMax)
  /\ pbLog' = Append(pbLog, Len(pbLog) + 1)
  /\ UNCHANGED <<pbMax, serverVars, bcRs, bcExclude, bcFail, bcRes, proc>>

NextPB == PushStep

SpecPB == InitPB /\ [][NextPB]_vars

\* C1: after n appends to an empty buffer of capacity C the buffer holds
\* min(n, C) entries, the most recently appended ones in insertion order.
C1_PushBoundedKeepsNewest ==
  /\ Len(pbArr) = Min(Len(pbLog), pbMax)
  /\ \A i \in 1..Len(pbArr) : pbArr[i] = pbLog[Len(pbLog) - Len(pbArr) + i]

C1_Witness == pbMax = 3 /\ Len(pbLog) = 5 /\ pbArr = <<3, 4, 5>>

----------------------------------------------------------------------------
(* The server in every interleaving *)

\* the entries of a buffer are its most recent appends, in the order appended
RecentInOrder(hist, count) ==
  \A i \in 1..Len(hist) : hist[i].seq = count - Len(hist) + i

\* C2: chatHistory holds at most 40 entries and winHistory at most 50, each in
\* the order in which its entries were appended, whatever events interleave.
C2_HistoriesBounded ==
  /\ Len(chatHistory) <= MAX_CHAT
  /\ Len(winHistory) <= MAX_WINS
  /\ RecentInOrder(chatHistory, chatCount)
  /\ RecentInOrder(winHistory, winCount)

C2_Witness ==
  /\ Len(chatHistory) = MAX_CHAT /\ chatCount > MAX_CHAT
  /\ Len(winHistory) = MAX_WINS /\ winCount > MAX_WINS
  /\ chatHistory[MAX_CHAT].type = "system_message"
  /\ chatHistory[MAX_CHAT].text.tpl = "bigwin"

Last(seq) == seq[Len(seq)]

EqIgnoreCase(a, b) == toLowerCase(a) = toLowerCase(b)

\* the step is the event op of socket w
IsEvent(op, w) == ev'.op = op /\ ev'.w = w

UniqueNicks ==
  \A a, b \in Ws :
    (a # b /\ clients[a].registered /\ clients[b].registered)
      => ~EqIgnoreCase(clients[a].nickname, clients[b].nickname)

DuplicateRefused ==
  \A b \in Ws :
    ( /\ IsEvent("register", b)
      /\ ~clients[b].registered
      /\ \E a \in Ws \ {b} :
           /\ clients[a].registered
           /\ \/ EqIgnoreCase(ev'.nick, clients[a].nickname)
              \/ EqIgnoreCase(sanitizeNick(ev'.nick), clients[a].nickname) )
    => /\ sent'[b] = <<RegErr("taken")>>
       /\ ~clients'[b].registered
       /\ clients'[b].nickname = <<>>
       /\ clients' = clients

\* C3: no two registered sessions hold nicknames equal ignoring case, and a
\* register frame whose nickname equals, ignoring case, that of another
\* registered session is answered with the duplicate error and leaves the
\* sender unregistered without a nickname.
C3_NicknameUnique == []UniqueNicks /\ [][DuplicateRefused]_vars

C3_Witness ==
  /\ ev.op = "register"
  /\ ev.nick = <<" ","a","<","L"," ">>
  /\ sent[ev.w] = <<RegErr("taken")>>
  /\ ~clients[ev.w].registered
  /\ \E a \in Ws : clients[a].registered /\ clients[a].nickname = <<"A","l">>

\* C4: a register frame from a session that is already registered changes
\* neither its nickname nor its registered flag, sends nothing, appends
\* nothing to chatHistory and schedules no broadcast.
C4_RegisterIdempotent ==
  [][\A w \in Ws :
       (IsEvent("register", w) /\ clients[w].registered)
       => /\ clients' = clients
          /\ sent' = EmptyOut
          /\ chatHistory' = chatHistory
          /\ chatCount' = chatCount
          /\ broadcastTimer' = broadcastTimer]_vars

C4_Witness ==
  /\ ev.op = "register"
  /\ clients[ev.w].registered
  /\ sent = EmptyOut
  /\ clients[ev.w].nickname = <<"A","l">>
  /\ sanitizeNick(ev.nick) = <<"E","v">>

NewChatEntry == chatCount' = chatCount + 1 /\ Last(chatHistory').type = "chat"
NewWinEntry == winCount' = winCount + 1

FromRegistered(entry, op) ==
  \E w \in Ws :
    /\ IsEvent(op, w)
    /\ clients[w].registered
    /\ entry.clientId = clients[w].id
    /\ entry.nickname = clients[w].nickname

UnregisteredIgnored ==
  \A w \in Ws :
    ((IsEvent("chat", w) \/ IsEvent("win", w)) /\ ~clients[w].registered)
    => /\ chatHistory' = chatHistory /\ chatCount' = chatCount
       /\ winHistory' = winHistory /\ winCount' = winCount
       /\ \A o \in Ws \ {w} : sent'[o] = <<>>
       /\ sent'[w] \in {<<>>, <<Err("login_first")>>}

\* C6: a chat entry or a win entry is appended only by a chat or win frame of
\* a session that is registered, and carries that session's id and nickname;
\* a chat or win frame of an unregistered session appends and broadcasts nothing.
C6_OnlyRegisteredPost ==
  [][/\ NewChatEntry => FromRegistered(Last(chatHistory'), "chat")
     /\ NewWinEntry => FromRegistered(Last(winHistory'), "win")
     /\ chatCount' \in {chatCount, chatCount + 1}
     /\ winCount' \in {winCount, winCount + 1}
     /\ UnregisteredIgnored]_vars

C6_Witness ==
  /\ ev.op = "win"
  /\ ~clients[ev.w].registered
  /\ floorAmount(ev.amount) = 1
  /\ sent = EmptyOut
  /\ \E i \in 1..Len(chatHistory) :
        chatHistory[i].type = "chat" /\ chatHistory[i].clientId > 0

FullInv == clientsSize(clients, idle) <= MAX_CLIENTS

FullRefused ==
  \A w \in Ws :
    (IsEvent("connect", w) /\ wssSize(readyState, idle) >= MAX_CLIENTS)
    => /\ sent'[w] = <<CloseFrame(FULL_CODE)>>
       /\ readyState'[w] = "CLOSING"
       /\ clients' = clients
       /\ ~isAlive'[w]
       /\ broadcastTimer' = broadcastTimer

\* C9: the clients map never holds more than MAX_CLIENTS sessions; a connection
\* that arrives when the cap is exceeded is closed with status 1013 and gets
\* no session, no init frame, no heartbeat flag and no online-count broadcast.
C9_ConnectionCap == []FullInv /\ [][FullRefused]_vars

C9_Witness ==
  /\ ev.op = "connect"
  /\ sent[ev.w] = <<CloseFrame(FULL_CODE)>>
  /\ readyState[ev.w] = "CLOSING"
  /\ clientsSize(clients, idle) = MAX_CLIENTS

IsBye(m, nick) ==
  m.type = "system_message" /\ m.text.tpl = "bye" /\ m.text.nick = nick

CloseAnnounced ==
  \A w \in Ws :
    IsEvent("close", w) =>
      /\ ~clients'[w].present
      /\ clients[w].id \notin DOMAIN rateLimits'
      /\ sent'[w] = <<>>
      /\ IF clients[w].registered
         THEN /\ chatCount' = chatCount + 1
              /\ IsBye(Last(chatHistory'), clients[w].nickname)
              /\ \A o \in Ws \ {w} :
                   sent'[o] = IF readyState[o] = "OPEN" THEN <<Last(chatHistory')>> ELSE <<>>
         ELSE /\ chatHistory' = chatHistory /\ chatCount' = chatCount
              /\ sent' = EmptyOut

\* only the nicknames of live sessions stand in the way of a registration
FreeNickAccepted ==
  \A w \in Ws :
    LET n == sanitizeNick(ev'.nick) IN
    ( /\ IsEvent("register", w)
      /\ ~clients[w].registered
      /\ Len(n) >= NICK_MIN
      /\ ~isBadNick(n)
      /\ \A a \in Ws \ {w} : clients[a].present => ~EqIgnoreCase(clients[a].nickname, n) )
    => /\ clients'[w].registered
       /\ clients'[w].nickname = n
       /\ sent'[w][1] = [type |-> "register_ok", nickname |-> n, clientId |-> clients[w].id]

\* C10: the close of a registered session appends one departure message,
\* sends it to every other open connection and not to the closed one, deletes
\* the session and its rate state, and frees the nickname for another session;
\* the close of an unregistered session appends and announces nothing.
C10_Disconnect == [][CloseAnnounced /\ FreeNickAccepted]_vars

\* a session took the nickname of a session that left
C10_Witness ==
  /\ ev.op = "register"
  /\ clients[ev.w].registered
  /\ \E i, j \in 1..Len(chatHistory) :
       /\ i < j
       /\ IsBye(chatHistory[i], clients[ev.w].nickname)
       /\ j = Len(chatHistory)
       /\ chatHistory[j].type = "system_message"
       /\ chatHistory[j].text.tpl = "join"
       /\ chatHistory[j].text.nick = clients[ev.w].nickname
  /\ Len(sent[ev.w]) = 2

----------------------------------------------------------------------------
(* The rate limiter: one session, its chat frames, the clock and the sweep *)

InitRate == ServerInit(FALSE, MaxRateEvents) /\ PbIdle

NextRate ==
  \/ Connect("w1")
  \/ Register("w1", <<"A","l">>)
  \/ Chat("w1", <<"h","<">>)
  \/ Tick(TickShort)
  \/ RateSweep

SpecRate == InitRate /\ [][NextRate]_vars

\* attempts of the same session before attempt i
Earlier(log, i) == {j \in 1..(i - 1) : log[j].id = log[i].id}

SetMax(S) == CHOOSE x \in S : \A y \in S : y <= x

\* the start of the window attempt i falls in: the first attempt opens a
\* window, and so does each attempt made after the open window has elapsed
RECURSIVE WindowStart(_, _)
WindowStart(log, i) ==
  IF Earlier(log, i) = {} THEN log[i].t
  ELSE LET s == WindowStart(log, SetMax(Earlier(log, i)))
       IN IF log[i].t - s > RL_WINDOW THEN log[i].t ELSE s

\* the place of attempt i among the attempts of its window
RankInWindow(log, i) ==
  Cardinality({j \in Earlier(log, i) \cup {i} : WindowStart(log, j) = WindowStart(log, i)})

\* C5: of the chat attempts a registered session makes inside one window of
\* 10 s the first 6 are allowed and every later one is denied; the first
\* attempt after the window has elapsed is allowed and opens a new window.
C5_RateLimit ==
  \A i \in 1..Len(attempts) :
    attempts[i].denied <=> RankInWindow(attempts, i) > RL_MAX_CHAT

C5_Witness ==
  /\ Len(attempts) = 8
  /\ \A i \in 1..6 : ~attempts[i].denied /\ attempts[i].t = 0
  /\ attempts[7].denied /\ attempts[7].t = RL_WINDOW
  /\ ~attempts[8].denied /\ attempts[8].t > RL_WINDOW
  /\ rateLimits[attempts[8].id] = [count |-> 1, t |-> attempts[8].t]

----------------------------------------------------------------------------
(* Win frames: two sessions and every amount and game *)

InitWin == (\E busy \in BOOLEAN : ServerInit(busy, MaxWinEvents)) /\ PbIdle

NextWin ==
  \/ \E w \in {"w1", "w2"} : Connect(w)
  \/ \E w \in {"w1", "w2"}, raw \in {<<"A","l">>, <<"E","v">>} : Register(w, raw)
  \/ \E w \in {"w1", "w2"}, a \in AmountInputs, g \in GameInputs : Win(w, a, g)

SpecWin == InitWin /\ [][NextWin]_vars

\* twice the amount of the frame
Twice(a) == 2 * a.n + a.half

\* hist2 is hist with entry appended, the oldest entry dropped if it was full
AppendedOne(hist, hist2, entry, max) ==
  /\ Last(hist2) = entry
  /\ IF Len(hist) < max
     THEN hist2 = Append(hist, entry)
     ELSE Len(hist2) = max /\ \A i \in 1..(max - 1) : hist2[i] = hist[i + 1]

IsWinOf(m, client, k) ==
  /\ m.type = "win" /\ m.clientId = client.id /\ m.nickname = client.nickname
  /\ m.amount = k

WinSilentlyDropped ==
  /\ sent' = EmptyOut
  /\ winHistory' = winHistory /\ winCount' = winCount
  /\ chatHistory' = chatHistory /\ chatCount' = chatCount

\* one win entry appended and sent first to every open connection
WinAppended(client, k) ==
  /\ winCount' = winCount + 1
  /\ IsWinOf(Last(winHistory'), client, k)
  /\ AppendedOne(winHistory, winHistory', Last(winHistory'), MAX_WINS)
  /\ \A o \in Ws : IF readyState[o] = "OPEN"
                   THEN sent'[o] # <<>> /\ sent'[o][1] = Last(winHistory')
                   ELSE sent'[o] = <<>>

\* The claim as written: accepted exactly if the amount is an integer in (0, 1,000,000]
C7_AsClaimed ==
  [][\A w \in Ws :
       (IsEvent("win", w) /\ clients[w].registered)
       => LET a == ev'.amount IN
          IF a.half = 0 /\ a.n > 0 /\ a.n <= MAX_AMOUNT
          THEN WinAppended(clients[w], a.n)
          ELSE WinSilentlyDropped]_vars

\* C7 (amended): a win frame of a registered session is accepted exactly if the
\* integer part of its amount is in [1, 1,000,000], that is 1 <= amount < 1,000,001,
\* and the entry carries the integer part; a rejected win sends, appends and
\* broadcasts nothing.
C7_WinAmount ==
  [][\A w \in Ws :
       (IsEvent("win", w) /\ clients[w].registered)
       => LET a == ev'.amount IN
          IF 2 <= Twice(a) /\ Twice(a) < 2 * (MAX_AMOUNT + 1)
          THEN WinAppended(clients[w], Twice(a) \div 2)
          ELSE WinSilentlyDropped]_vars

C7_Witness ==
  /\ ev.op = "win"
  /\ ev.amount = [n |-> 1000000, half |-> 1]
  /\ winCount > 0 /\ Last(winHistory).amount = MAX_AMOUNT
  /\ Last(winHistory).seq = winCount
  /\ sent[ev.w][1] = Last(winHistory)

IsBigWinMsg(m, client, k) ==
  /\ m.type = "system_message" /\ m.text.tpl = "bigwin"
  /\ m.text.nick = client.nickname /\ m.text.amount = k

\* C8: an accepted win of 500 or more appends one win entry and one system
\* chat entry and sends both, the win first, to every open connection; an
\* accepted win below 500 appends one win entry and leaves chatHistory as it is.
C8_BigWin ==
  [][\A w \in Ws :
       (IsEvent("win", w) /\ NewWinEntry)
       => LET k == Last(winHistory').amount
              open == {o \in Ws : readyState[o] = "OPEN"}
          IN /\ AppendedOne(winHistory, winHistory', Last(winHistory'), MAX_WINS)
             /\ IsWinOf(Last(winHistory'), clients[w], k)
             /\ IF k >= BIG_WIN
                THEN /\ chatCount' = chatCount + 1
                     /\ IsBigWinMsg(Last(chatHistory'), clients[w], k)
                     /\ AppendedOne(chatHistory, chatHistory', Last(chatHistory'), MAX_CHAT)
                     /\ \A o \in open : sent'[o] = <<Last(winHistory'), Last(chatHistory')>>
                ELSE /\ chatHistory' = chatHistory /\ chatCount' = chatCount
                     /\ \A o \in open : sent'[o] = <<Last(winHistory')>>
             /\ \A o \in Ws \ open : sent'[o] = <<>>]_vars

C8_Witness ==
  /\ ev.op = "win" /\ floorAmount(ev.amount) = BIG_WIN
  /\ readyState["w1"] = "OPEN" /\ readyState["w2"] = "OPEN"
  /\ Len(sent["w1"]) = 2 /\ sent["w2"] = sent["w1"]
  /\ sent["w1"][1].type = "win" /\ sent["w1"][2].type = "system_message"
  /\ Len(chatHistory) = MAX_CHAT /\ chatCount > MAX_CHAT

----------------------------------------------------------------------------
(* Joining: connections, registrations, closes and the debounce timer, which *)
(* the event loop fires once it is due.                                      *)

InitJoin == ServerInit(FALSE, MaxJoinEvents) /\ PbIdle

NextJoin ==
  \/ \E w \in Ws : Connect(w)
  \/ \E w \in Ws, raw \in NickInputs : Register(w, raw)
  \/ \E w \in Ws : Close(w)
  \/ DebounceDue

SpecJoin == InitJoin /\ [][NextJoin]_vars /\ WF_vars(DebounceDue)

FirstInit ==
  \A w \in Ws :
    (IsEvent("connect", w) /\ wssClients(readyState) = {} /\ idle = 0
       /\ chatHistory = <<>> /\ winHistory = <<>>)
    => sent'[w] = <<[type |-> "init", clientId |-> clients'[w].id, chatHistory |-> <<>>,
                     winHistory |-> <<>>, onlineCount |-> 1]>>

ValidFreeNick(w, n) ==
  /\ Len(n) >= NICK_MIN /\ Len(n) <= NICK_MAX
  /\ ~isBadNick(n)
  /\ \A a \in Ws \ {w} : clients[a].present => ~EqIgnoreCase(clients[a].nickname, n)

IsJoin(m, nick) ==
  m.type = "system_message" /\ m.text.tpl = "join" /\ m.text.nick = nick

JoinAnnounced ==
  \A w \in Ws :
    LET n == sanitizeNick(ev'.nick) IN
    (IsEvent("register", w) /\ ~clients[w].registered /\ ValidFreeNick(w, n))
    => /\ Len(sent'[w]) = 2
       /\ sent'[w][1] = [type |-> "register_ok", nickname |-> n, clientId |-> clients[w].id]
       /\ IsJoin(sent'[w][2], n)
       /\ \A o \in Ws \ {w} :
            sent'[o] = IF readyState[o] = "OPEN" THEN <<sent'[w][2]>> ELSE <<>>
       /\ broadcastTimer'.handle

Registered == ev.op = "register" /\ sent[ev.w] # <<>> /\ sent[ev.w][1].type = "register_ok"

CountBroadcast ==
  /\ ev.op = "debounce"
  /\ \A o \in Ws :
       sent[o] = IF readyState[o] = "OPEN"
                 THEN <<[type |-> "online_count", count |-> getOnlineCount(readyState, idle)]>>
                 ELSE <<>>

\* C11: the first client of a fresh server receives init with onlineCount 1
\* and empty histories; a registration with a valid free nickname is answered
\* with register_ok, every other open connection receives the system message
\* with the nickname, and an online_count is eventually sent to all open
\* connections.
C11_Join == [][FirstInit /\ JoinAnnounced]_vars /\ (Registered ~> CountBroadcast)

C11_Witness ==
  /\ ev.op = "debounce"
  /\ \E a, b \in Ws :
       /\ a # b /\ clients[a].registered /\ clients[a].id = 1
       /\ readyState[b] = "OPEN"
       /\ sent[a] = <<[type |-> "online_count", count |-> 2]>> /\ sent[b] = sent[a]
  /\ Len(chatHistory) = 1 /\ IsJoin(chatHistory[1], <<"A","l">>)

----------------------------------------------------------------------------
(* broadcast on its own: any readyState of the sockets, any excluded socket  *)
(* and any set of sockets whose send throws.                                 *)

ReadyStates == {"NONE", "OPEN", "CLOSING"}

BcData == [type |-> "online_count", count |-> 1]

InitBcast ==
  /\ ServerInit(FALSE, 0)
  /\ proc = Running
  /\ pbArr = <<>> /\ pbMax = 0 /\ pbLog = <<>>
  /\ bcRs \in [Ws -> ReadyStates]
  /\ bcExclude \in Ws \cup {NoWs}
  /\ bcFail \in SUBSET Ws
  /\ bcRes = NoRes

BroadcastStep ==
  /\ ~bcRes.done
  /\ bcRes' = [done |-> TRUE] @@
              fanOut(SocketOrder, FanStart(EmptyOut), bcRs, BcData, bcExclude, bcFail)
  /\ UNCHANGED <<serverVars, pbArr, pbMax, pbLog, bcRs, bcExclude, bcFail, proc>>

NextBcast == BroadcastStep

SpecBcast == InitBcast /\ [][NextBcast]_vars

Times(seq, x) == Cardinality({i \in 1..Len(seq) : seq[i] = x})

\* C12: broadcast calls send exactly once on every open socket other than
\* excludeWs and on no other socket; a send that throws stops neither the
\* sends to the other sockets nor reaches the caller.
C12_BestEffortFanOut ==
  bcRes.done =>
    /\ \A w \in Ws :
         Times(bcRes.tried, w) = IF bcRs[w] = "OPEN" /\ w # bcExclude THEN 1 ELSE 0
    /\ \A w \in Ws :
         bcRes.out[w] = IF bcRs[w] = "OPEN" /\ w # bcExclude /\ w \notin bcFail
                        THEN <<BcData>> ELSE <<>>
    /\ ~bcRes.thrown

C12_Witness ==
  /\ bcRes.done
  /\ bcRs = [w \in Ws |-> "OPEN"] /\ bcExclude = "w3" /\ bcFail = {"w1"}
  /\ bcRes.tried = <<"w1", "w2">>
  /\ bcRes.out["w2"] = <<BcData>>

----------------------------------------------------------------------------
(* The debounce timer among connections, registrations and closes.           *)

InitTimer == ServerInit(FALSE, MaxTimerEvents) /\ PbIdle

NextTimer ==
  \/ \E w \in Ws : Connect(w)
  \/ \E w \in Ws, raw \in NickInputs : Register(w, raw)
  \/ \E w \in Ws : Close(w)
  \/ DebounceFire

SpecTimer == InitTimer /\ [][NextTimer]_vars

OneTimer == broadcastTimer.pending <= 1 /\ (broadcastTimer.handle <=> broadcastTimer.pending = 1)

\* a trigger while the timer is armed sets no second timeout
TriggerAbsorbed ==
  (broadcastTimer.handle /\ ev'.op # "debounce") => broadcastTimer' = broadcastTimer

\* the callback sends one online_count, counted when it runs, and disarms
FiresOnce ==
  IsEvent("debounce", NoWs)
  => /\ \A o \in Ws :
          sent'[o] = IF readyState'[o] = "OPEN"
                     THEN <<[type |-> "online_count",
                             count |-> Cardinality({a \in Ws : readyState'[a] = "OPEN"}) + idle']>>
                     ELSE <<>>
     /\ broadcastTimer' = NoTimer

\* C13: at most one debounce timeout is pending; triggers that arrive while it
\* is pending set no other, and its callback broadcasts online_count once,
\* with the number of open connections at the time it runs.
C13_Debounce == []OneTimer /\ [][TriggerAbsorbed /\ FiresOnce]_vars

\* three events in all: two connections, then the one callback they armed
C13_Witness ==
  /\ ev.op = "debounce" /\ left = MaxTimerEvents - 3 /\ nextId = 3
  /\ \E a, b \in Ws : a # b /\ sent[a] = <<[type |-> "online_count", count |-> 2]>>
                            /\ sent[b] = sent[a]
  /\ broadcastTimer = NoTimer

----------------------------------------------------------------------------
(* The liveness monitor among two sessions that connect, register, chat,     *)
(* answer pings or not, and close.                                           *)

PingWs == {"w1", "w2"}
PingNicks == { <<"A","l">> }

InitPing == ServerInit(FALSE, MaxPingEvents) /\ PbIdle

NextPing ==
  \/ \E w \in PingWs : Connect(w)
  \/ \E w \in PingWs, raw \in PingNicks : Register(w, raw)
  \/ \E w \in PingWs, raw \in TextInputs : Chat(w, raw)
  \/ \E w \in PingWs : Pong(w)
  \/ PingRound
  \/ \E w \in PingWs : Close(w)

SpecPing == InitPing /\ [][NextPing]_vars

\* one probe round: terminate the sockets whose flag is false, clear the flag
\* of the others and ping them
RoundProbes ==
  IsEvent("ping_iv", NoWs)
  => \A w \in Ws :
       /\ (readyState[w] # "NONE" /\ ~isAlive[w])
            => readyState'[w] = "CLOSING" /\ sent'[w] = <<>>
       /\ (readyState[w] = "OPEN" /\ isAlive[w])
            => /\ readyState'[w] = "OPEN" /\ ~isAlive'[w]
               /\ sent'[w] = <<[type |-> "ws_ping"]>>
               /\ clients'[w] = clients[w]

\* the 'close' event of a terminated socket is handled as any other close
TerminatedLeaves ==
  \A w \in Ws :
    (IsEvent("close", w) /\ readyState[w] = "CLOSING" /\ clients[w].present)
    => /\ clients'[w] = NoClient
       /\ readyState'[w] = "NONE"
       /\ ~HasRate(rateLimits', clients[w].id)
       /\ IF clients[w].registered
          THEN /\ AppendedOne(chatHistory, chatHistory', Last(chatHistory'), MAX_CHAT)
               /\ IsBye(Last(chatHistory'), clients[w].nickname)
               /\ \A o \in Ws : sent'[o] = IF readyState'[o] = "OPEN"
                                           THEN <<Last(chatHistory')>> ELSE <<>>
          ELSE chatHistory' = chatHistory /\ sent' = EmptyOut

\* the flag is set by admission and by a pong, and cleared only by a round
\* (or when the socket goes away)
FlagFollowsPongs ==
  \A w \in Ws :
    /\ IsEvent("pong", w) => isAlive'[w]
    /\ (IsEvent("connect", w) /\ clients'[w].present) => isAlive'[w]
    /\ (isAlive[w] /\ ~isAlive'[w]) => (IsEvent("ping_iv", NoWs) \/ IsEvent("close", w))

\* only the monitor takes an open socket to CLOSING, and only if its flag is false
OnlySilentTerminated ==
  \A w \in Ws :
    (readyState[w] = "OPEN" /\ readyState'[w] = "CLOSING")
    => IsEvent("ping_iv", NoWs) /\ ~isAlive[w]

\* C14: a probe round terminates the connections whose alive flag is false and
\* their close is handled as a client close (departure announced if registered,
\* rate state deleted); the others get the flag cleared and a ping.  The flag
\* is set again only by a pong, so a silent connection is terminated at the
\* second round after its last pong and one that answers every ping never is.
C14_LivenessMonitor ==
  [][RoundProbes /\ TerminatedLeaves /\ FlagFollowsPongs /\ OnlySilentTerminated]_vars

\* second round: w1 never answered and is terminated, w2 answered and is pinged
C14_Witness ==
  /\ ev.op = "ping_iv"
  /\ readyState["w1"] = "CLOSING" /\ clients["w1"].registered
  /\ HasRate(rateLimits, clients["w1"].id)
  /\ readyState["w2"] = "OPEN" /\ sent["w2"] = <<[type |-> "ws_ping"]>>
  /\ sent["w1"] = <<>>

----------------------------------------------------------------------------
(* The init frame *)

\* part holds the k most recent entries of hist, in the order of hist
MostRecent(part, hist, k) ==
  /\ Len(part) = k
  /\ \A i \in 1..k : part[i] = hist[Len(hist) - k + i]

Smaller(a, b) == IF a < b THEN a ELSE b

InitSnapshot ==
  \A w \in Ws :
    (IsEvent("connect", w) /\ clients'[w].present)
    => /\ Len(sent'[w]) = 1 /\ sent'[w][1].type = "init"
       /\ MostRecent(sent'[w][1].chatHistory, chatHistory,
                     Smaller(INIT_CHAT, Len(chatHistory)))
       /\ MostRecent(sent'[w][1].winHistory, winHistory,
                     Smaller(INIT_WINS, Len(winHistory)))
       /\ sent'[w][1].onlineCount =
            Cardinality({o \in Ws : readyState'[o] = "OPEN"}) + idle'
       /\ readyState'[w] = "OPEN"
       /\ chatHistory' = chatHistory /\ winHistory' = winHistory

\* C15: the init frame of an admitted connection carries the min(25, length)
\* most recent chat entries and the min(15, length) most recent win entries in
\* their order, and the number of open connections with the new one; neither
\* buffer changes.
C15_InitSnapshot == [][InitSnapshot]_vars

\* a second connection to a server with full buffers
C15_Witness ==
  /\ ev.op = "connect" /\ ev.w = "w2" /\ clients["w2"].present
  /\ Len(chatHistory) = MAX_CHAT /\ Len(winHistory) = MAX_WINS
  /\ Len(sent["w2"][1].chatHistory) = INIT_CHAT
  /\ Len(sent["w2"][1].winHistory) = INIT_WINS
  /\ Last(sent["w2"][1].chatHistory) = Last(chatHistory)
  /\ sent["w2"][1].winHistory[1] = winHistory[MAX_WINS - INIT_WINS + 1]
  /\ sent["w2"][1].onlineCount = MAX_CLIENTS

----------------------------------------------------------------------------
(* The life of a session: connections, registrations, closes, and frames     *)
(* handled after the session is gone.                                        *)

InitSession == ServerInit(FALSE, MaxSessionEvents) /\ PbIdle

NextSession ==
  \/ \E w \in Ws : Connect(w)
  \/ \E w \in Ws, raw \in NickInputs : Register(w, raw)
  \/ \E w \in Ws : Close(w)
  \/ \E w \in Ws : LateFrame(w)

SpecSession == InitSession /\ [][NextSession]_vars

\* the ids of the sessions are distinct and were all handed out already
SessionIds ==
  /\ \A w \in Ws : clients[w].present => clients[w].id < nextId
  /\ \A a, b \in Ws : (a # b /\ clients[a].present /\ clients[b].present)
                        => clients[a].id # clients[b].id

SessionMoves ==
  \A w \in Ws :
    /\ (clients[w].present /\ clients'[w].present)
         => /\ clients'[w].id = clients[w].id
            /\ clients[w].registered => clients'[w].registered
            /\ (clients'[w].registered /\ ~clients[w].registered) => IsEvent("register", w)
    /\ (clients[w].present /\ ~clients'[w].present) => IsEvent("close", w)
    /\ IsEvent("close", w) => ~clients'[w].present
    /\ (~clients[w].present /\ clients'[w].present)
         => /\ IsEvent("connect", w)
            /\ ~clients'[w].registered
            /\ clients'[w].id = nextId /\ nextId' = nextId + 1

LateIgnored ==
  \A w \in Ws :
    IsEvent("late_frame", w)
    => /\ sent' = EmptyOut
       /\ UNCHANGED <<readyState, clients, idle, chatHistory, winHistory, chatCount,
                      winCount, rateLimits, broadcastTimer, isAlive, nextId>>

\* C16: a session is created unregistered, may become registered by a register
\* frame and never unregistered again, and is removed only by the close of its
\* socket; a removed session never comes back (a later connection gets a new
\* id), and a frame handled for a socket without session changes nothing and
\* sends nothing.
C16_SessionStates == []SessionIds /\ [][SessionMoves /\ LateIgnored]_vars

\* a frame for the closed session 1, which was registered, while session 2 lives
C16_Witness ==
  /\ ev.op = "late_frame" /\ ev.w = "w1" /\ ~clients["w1"].present
  /\ nextId = 3 /\ clients["w2"].present /\ clients["w2"].id = 2
  /\ Len(chatHistory) = 2 /\ IsBye(Last(chatHistory), <<"A","l">>)
  /\ sent = EmptyOut

----------------------------------------------------------------------------
(* Refused registrations *)

\* the sanitized nickname is too short, or some other session holds it up to
\* case, or a word of the denylist occurs in it up to case
Unacceptable(w, n) ==
  \/ Len(n) < NICK_MIN
  \/ \E a \in Ws \ {w} : clients[a].present /\ clients[a].nickname # <<>>
                          /\ EqIgnoreCase(clients[a].nickname, n)
  \/ \E b \in BAD_NICKS : includes(toLowerCase(n), b)

RefusedCleanly ==
  \A w \in Ws :
    (IsEvent("register", w) /\ ~clients[w].registered
       /\ Unacceptable(w, sanitizeNick(ev'.nick)))
    => /\ Len(sent'[w]) = 1 /\ sent'[w][1].type = "register_error"
       /\ \A o \in Ws \ {w} : sent'[o] = <<>>
       /\ clients' = clients
       /\ ~clients'[w].registered /\ clients'[w].nickname = <<>>
       /\ chatHistory' = chatHistory
       /\ readyState'[w] = "OPEN"

\* C17: a register frame of an unregistered session whose sanitized nickname
\* is shorter than 2, taken up to case, or contains a denylisted word up to
\* case gets one register_error; the session stays unregistered and nameless,
\* chatHistory is unchanged, no other socket gets a frame, the socket stays open.
C17_FailedRegistration == [][RefusedCleanly]_vars

\* "Bots" is refused to session 2 while session 1 holds "Al"
C17_Witness ==
  /\ ev.op = "register" /\ ev.w = "w2" /\ ev.nick = <<"B","o","t","s">>
  /\ sent["w2"] = <<RegErr("forbidden")>> /\ sent["w1"] = <<>>
  /\ clients["w1"].registered /\ readyState["w1"] = "OPEN"
  /\ clients["w2"].present /\ ~clients["w2"].registered
  /\ Len(chatHistory) = 1

----------------------------------------------------------------------------
(* Frames that carry no request: undecodable, without a known type, pings,   *)
(* and frames over the length limit.                                         *)

InitFrames == ServerInit(FALSE, MaxFrameEvents) /\ PbIdle

NextFrames ==
  \/ \E w \in PingWs : Connect(w)
  \/ \E w \in PingWs, raw \in PingNicks : Register(w, raw)
  \/ \E w \in PingWs : Chat(w, <<"h","<">>)
  \/ \E w \in PingWs, len \in FrameLengths, kind \in FrameKinds : RawFrame(w, len, kind)
  \/ \E w \in PingWs : Close(w)

SpecFrames == InitFrames /\ [][NextFrames]_vars

FrameLeavesAll(w) ==
  /\ clients' = clients
  /\ chatHistory' = chatHistory /\ winHistory' = winHistory
  /\ rateLimits' = rateLimits
  /\ \A o \in Ws \ {w} : sent'[o] = <<>>
  /\ readyState'[w] = "OPEN"

\* a frame of at most 8192 characters that does not decode, has no known type
\* or is a ping changes nothing; only the ping is answered, with one pong
ShortFrameIgnored ==
  \A w \in Ws :
    (IsEvent("frame", w) /\ ev'.amount.n <= MAX_FRAME)
    => /\ FrameLeavesAll(w)
       /\ sent'[w] = IF ev'.text = <<"ping">> THEN <<[type |-> "pong"]>> ELSE <<>>

\* a frame of more than 8192 characters changes nothing and gets no reply
LongFrameIgnored ==
  \A w \in Ws :
    (IsEvent("frame", w) /\ ev'.amount.n > MAX_FRAME)
    => FrameLeavesAll(w) /\ sent'[w] = <<>>

\* C18: an inbound frame that is not valid JSON, is longer than 8192
\* characters, has no recognized type, or is a ping leaves sessions, buffers
\* and rate state unchanged, reaches no other socket and leaves the socket
\* open; a ping gets one pong, the others get no reply.
C18_AsClaimed == [][ShortFrameIgnored /\ LongFrameIgnored]_vars

\* the part that holds: frames within the length limit
C18_ShortFrames == [][ShortFrameIgnored]_vars

\* a registered session that has chatted sends 8193 characters and is closed
C18_Witness ==
  /\ ev.op = "frame" /\ ev.amount.n = MAX_FRAME + 1
  /\ clients[ev.w].registered /\ HasRate(rateLimits, clients[ev.w].id)
  /\ readyState[ev.w] = "CLOSING"
  /\ sent[ev.w] = <<CloseFrame("message_too_big")>>

----------------------------------------------------------------------------
(* Chat texts at the length limit *)

Repeat(c, n) == [i \in 1..n |-> c]

LongTexts ==
  { <<" ", " ">>,                          \* empty once trimmed
    Repeat("a", CHAT_MAX),                 \* 200 characters
    Repeat("a", CHAT_MAX) \o <<"b">>,      \* 201 characters
    <<" ">> \o Repeat("a", CHAT_MAX) \o <<"b", " ">> }

InitChat == ServerInit(FALSE, MaxChatEvents) /\ PbIdle

NextChat ==
  \/ \E w \in PingWs : Connect(w)
  \/ \E w \in PingWs, raw \in PingNicks : Register(w, raw)
  \/ \E w \in PingWs, raw \in LongTexts : Chat(w, raw)

SpecChat == InitChat /\ [][NextChat]_vars

\* a chat frame of a registered session that the rate limiter lets through
ChatAllowed(w) ==
  /\ IsEvent("chat", w) /\ clients[w].registered
  /\ sent'[w] # <<Err("too_many")>>

ChatDropped == chatHistory' = chatHistory /\ sent' = EmptyOut

EmptyDropped ==
  \A w \in Ws : (ChatAllowed(w) /\ trim(ev'.text) = <<>>) => ChatDropped

LongDropped ==
  \A w \in Ws : (ChatAllowed(w) /\ Len(ev'.text) > CHAT_MAX) => ChatDropped

LongTruncated ==
  \A w \in Ws :
    (ChatAllowed(w) /\ Len(trim(ev'.text)) > CHAT_MAX)
    => /\ chatHistory' = Append(chatHistory, Last(chatHistory'))
       /\ Last(chatHistory').type = "chat"
       /\ Last(chatHistory').text = escape(SubSeq(trim(ev'.text), 1, CHAT_MAX))
       /\ \A o \in Ws : sent'[o] = IF readyState[o] = "OPEN"
                                   THEN <<Last(chatHistory')>> ELSE <<>>

----------------------------------------------------------------------------
(* The memory watchdog, on empty and on nearly full buffers *)

InitMem == (\E busy \in BOOLEAN : ServerInit(busy, MaxMemEvents)) /\ PbIdle

NextMem ==
  \/ \E w \in PingWs : Connect(w)
  \/ \E w \in PingWs, raw \in PingNicks : Register(w, raw)
  \/ \E w \in PingWs : Chat(w, <<"h","<">>)
  \/ \E over \in BOOLEAN : MemWatch(over)

SpecMem == InitMem /\ [][NextMem]_vars

TrimmedToRecent ==
  (IsEvent("mem_iv", NoWs) /\ ev'.nick = <<"over">>)
  => /\ Len(chatHistory') <= TRIM_FLOOR /\ Len(winHistory') <= TRIM_FLOOR
     /\ MostRecent(chatHistory', chatHistory, Smaller(TRIM_FLOOR, Len(chatHistory)))
     /\ MostRecent(winHistory', winHistory, Smaller(TRIM_FLOOR, Len(winHistory)))
     /\ Len(chatHistory) <= TRIM_FLOOR => chatHistory' = chatHistory
     /\ Len(winHistory) <= TRIM_FLOOR => winHistory' = winHistory
     /\ clients' = clients /\ rateLimits' = rateLimits /\ readyState' = readyState
     /\ idle' = idle /\ sent' = EmptyOut

\* C20: when the watchdog finds the heap over the threshold, chatHistory and
\* winHistory are cut to their 20 most recent entries in unchanged order, a
\* buffer of 20 entries or fewer is left as it is, and no session, rate state
\* or connection changes.
C20_MemoryTrim == [][TrimmedToRecent]_vars

\* full chat buffer, 49 wins, one session with rate state: both cut to 20
C20_Witness ==
  /\ ev.op = "mem_iv" /\ ev.nick = <<"over">>
  /\ Len(chatHistory) = TRIM_FLOOR /\ Len(winHistory) = TRIM_FLOOR
  /\ chatCount = MAX_CHAT + 1 /\ Last(chatHistory).seq = chatCount
  /\ Last(chatHistory).type = "chat"
  /\ clients["w1"].registered /\ HasRate(rateLimits, clients["w1"].id)
  /\ readyState["w1"] = "OPEN"

----------------------------------------------------------------------------
(* Shutdown.  SIGTERM or SIGINT runs shutdown(): the four intervals are       *)
(* cleared, the debounce timeout is cancelled if the handle is set (the       *)
(* handle itself is not reset), every tracked socket is closed with 1001,     *)
(* the servers are asked to close and a timeout of 6 s is set.  The process   *)
(* exits with 0 when the last socket is gone and the servers have closed,     *)
(* or with 1 when that timeout runs.  The silent connections of idle take     *)
(* no part in these runs.                                                     *)

Signals == {"SIGTERM", "SIGINT"}
GOING_AWAY == 1001

\* shutdown without the forced exit after 6 s
graceTimer_none == FALSE

\* setTimeout(() => process.exit(1), 6_000)
graceTimer == TRUE

\* if (broadcastTimer) clearTimeout(broadcastTimer)
clearDebounce(t) ==
  IF t.handle /\ t.pending > 0 THEN [t EXCEPT !.pending = t.pending - 1] ELSE t

Shutdown(sig) ==
  /\ proc.exit = "none"
  /\ idle = 0
  /\ proc' = [intervals |-> FALSE, stopping |-> TRUE,
              grace |-> proc.grace \/ graceTimer, exit |-> "none"]
  /\ broadcastTimer' = clearDebounce(broadcastTimer)
  /\ readyState' = [w \in Ws |-> IF readyState[w] = "OPEN" THEN "CLOSING" ELSE readyState[w]]
  /\ Charged([Event("shutdown", NoWs) EXCEPT !.nick = <<sig>>],
             [w \in Ws |-> IF readyState[w] = "OPEN"
                           THEN <<CloseFrame(GOING_AWAY)>> ELSE <<>>])
  /\ UNCHANGED <<clients, idle, chatHistory, winHistory, chatCount, winCount, rateLimits,
                 now, isAlive, nextId, attempts>>

Quiet ==
  UNCHANGED <<readyState, clients, idle, chatHistory, winHistory, chatCount, winCount,
              rateLimits, now, broadcastTimer, isAlive, nextId, attempts>>

\* wss.close and server.close have called back: process.exit(0)
ExitClean ==
  /\ proc.stopping /\ proc.exit = "none"
  /\ \A w \in Ws : readyState[w] = "NONE"
  /\ proc' = [proc EXCEPT !.exit = "0", !.grace = FALSE]
  /\ Free(Event("exit", NoWs), EmptyOut)
  /\ Quiet

\* the timeout of 6 s runs: process.exit(1)
GraceFire ==
  /\ proc.grace /\ proc.exit = "none"
  /\ proc' = [proc EXCEPT !.exit = "1", !.grace = FALSE]
  /\ Free(Event("grace", NoWs), EmptyOut)
  /\ Quiet

\* the process has not exited
Alive == proc.exit = "none"

InitStop == ServerInit(FALSE, MaxStopEvents) /\ PbIdle

NextStop ==
  \/ Alive /\ ~proc.stopping /\ \E w \in PingWs : Connect(w)
  \/ Alive /\ \E w \in PingWs, raw \in PingNicks : Register(w, raw)
  \/ Alive /\ \E w \in PingWs : Chat(w, <<"h","<">>)
  \/ Alive /\ \E w \in PingWs : Close(w)
  \/ Alive /\ DebounceFire
  \/ Alive /\ proc.intervals /\ PingRound
  \/ Alive /\ proc.intervals /\ CountTick
  \/ Alive /\ proc.intervals /\ MemWatch(TRUE)
  \/ Alive /\ proc.intervals /\ RateSweep
  \/ \E sig \in Signals : Shutdown(sig)
  \/ ExitClean
  \/ GraceFire

SpecStop == InitStop /\ [][NextStop]_vars /\ WF_vars(GraceFire)

IntervalEvents == {"ping_iv", "count_iv", "mem_iv", "rl_iv"}

\* after shutdown began no interval callback runs
IntervalsStopped == proc.stopping => ev'.op \notin IntervalEvents

\* after shutdown began the debounce callback does not run
DebounceStopped == proc.stopping => ev'.op # "debounce"

\* shutdown sends the close frame 1001 to every socket that is open
AllToldToGo ==
  IsEvent("shutdown", NoWs)
  => \A w \in Ws : readyState[w] = "OPEN"
                     => sent'[w] = <<CloseFrame(GOING_AWAY)>> /\ readyState'[w] = "CLOSING"

\* C21: once shutdown has begun none of the timer tasks (probe round, periodic
\* and debounced online_count, memory watchdog, rate sweep) runs again, also
\* when connections close meanwhile, and every connection open at that moment
\* was sent a close with code 1001.
C21_AsClaimed == [][IntervalsStopped /\ DebounceStopped /\ AllToldToGo]_vars

\* the part that holds: the intervals stop and the open sockets are told
C21_IntervalsStop == [][IntervalsStopped /\ AllToldToGo]_vars

\* the debounce callback has run during the shutdown
C21_Witness ==
  /\ ev.op = "debounce" /\ proc.stopping /\ proc.exit = "none"
  /\ \E w \in Ws : readyState[w] = "CLOSING"


\* the process exits only through shutdown: with 0 when no socket is left,
\* with 1 by the timeout
ExitsAsStated ==
  /\ (proc.exit = "none" /\ proc'.exit = "0")
       => proc.stopping /\ ev'.op = "exit" /\ \A w \in Ws : readyState[w] = "NONE"
  /\ (proc.exit = "none" /\ proc'.exit = "1") => proc.stopping /\ ev'.op = "grace"
  /\ proc.exit # "none" => proc'.exit = proc.exit

\* C22: after SIGTERM or SIGINT the process eventually exits, with 0 once the
\* servers have closed or with 1 when the timeout of 6 s runs, also when a
\* connection never finishes its close.
C22_ShutdownTerminates ==
  /\ proc.stopping ~> proc.exit # "none"
  /\ [](proc.exit \in {"none", "0", "1"})
  /\ [][ExitsAsStated]_vars

\* exit 1 while the socket of a registered session is still closing
C22_Witness ==
  /\ proc.exit = "1" /\ ev.op = "grace"
  /\ \E w \in Ws : readyState[w] = "CLOSING" /\ clients[w].registered


----------------------------------------------------------------------------
(* Two sessions and the rate limiter: session A on w1 chats, session B on    *)
(* w2 registers, chats, wins, pings and closes in between, and time passes.  *)

Al == [id |-> 1, nickname |-> <<"A","l">>, registered |-> TRUE, present |-> TRUE]

\* the chat entries of Al's first n chat frames "h<", all at time 0
AlChats(n) == [i \in 1..n |-> ChatMsg(i + 1, Al, sanitize(<<"h","<">>, CHAT_MAX), 0, i + 1)]

\* The state a fresh server reaches when a first connection registers as "Al"
\* and sends WarmChats chat frames at once.
WarmInit ==
  /\ readyState = [w \in Ws |-> IF w = "w1" THEN "OPEN" ELSE "NONE"]
  /\ clients = [w \in Ws |-> IF w = "w1" THEN Al ELSE NoClient]
  /\ idle = 0
  /\ chatHistory = <<JoinMsg(Al.nickname, 0, 1)>> \o AlChats(WarmChats)
  /\ winHistory = <<>>
  /\ chatCount = Len(chatHistory)
  /\ winCount = 0
  /\ rateLimits = (Al.id :> [count |-> WarmChats, t |-> 0])
  /\ now = 0
  /\ broadcastTimer = scheduleOnlineBroadcast(NoTimer)
  /\ isAlive = [w \in Ws |-> w = "w1"]
  /\ nextId = WarmChats + 2
  /\ sent = broadcastAll(EmptyOut, readyState, Last(chatHistory))
  /\ ev = [Event("chat", "w1") EXCEPT !.text = <<"h","<">>]
  /\ attempts = [i \in 1..WarmChats |-> [id |-> Al.id, t |-> 0, denied |-> FALSE]]
  /\ left = MaxIndepEvents

InitIndep == (ServerInit(FALSE, MaxIndepEvents) \/ WarmInit) /\ PbIdle

NextIndep ==
  \/ \E w \in PingWs : Connect(w)
  \/ Register("w1", <<"A","l">>)
  \/ Register("w2", <<"E","v">>)
  \/ \E w \in PingWs : Chat(w, <<"h","<">>)
  \/ Win("w2", [n |-> 1, half |-> 0], <<>>)
  \/ PingFrame("w2")
  \/ Close("w2")
  \/ Tick(TickLong)

SpecIndep == InitIndep /\ [][NextIndep]_vars

FrameEvents == {"register", "chat", "win", "ping", "close"}

\* the rate state of the session with this id
RateOf(rl, id) == IF HasRate(rl, id) THEN <<rl[id]>> ELSE <<>>

\* an event of one socket leaves the rate state of every other session alone
OthersUntouched ==
  \A a, b \in Ws :
    (a # b /\ ev'.w = b /\ ev'.op \in FrameEvents /\ clients[a].present)
    => RateOf(rateLimits', clients[a].id) = RateOf(rateLimits, clients[a].id)

\* each outcome follows from the session's own earlier attempts and their times
OwnHistoryDecides ==
  \A i \in 1..Len(attempts) :
    attempts[i].denied <=> RankInWindow(attempts, i) > RL_MAX_CHAT

\* C23: whether a chat attempt of a session is allowed depends only on that
\* session's own earlier attempts and their times; no register, chat, win,
\* ping or close of another session changes its rate state.
C23_WindowsIndependent == []OwnHistoryDecides /\ [][OthersUntouched]_vars

\* A's seventh attempt is denied although B chatted in between and was allowed
C23_Witness ==
  /\ Len(attempts) = RL_MAX_CHAT + 2
  /\ Cardinality({i \in 1..Len(attempts) : attempts[i].id = clients["w1"].id}) = RL_MAX_CHAT + 1
  /\ Last(attempts).id = clients["w1"].id /\ Last(attempts).denied
  /\ \E i \in 2..(RL_MAX_CHAT + 1) : attempts[i].id # clients["w1"].id /\ ~attempts[i].denied
  /\ clients["w1"].registered


----------------------------------------------------------------------------
(* The earlier revision of the server (the file without a name): its         *)
(* connection handler and its case 'register', which has no test of          *)
(* client.registered.  Its sanitizeNick and isNicknameUsed compute what      *)
(* sanitizeNick and isNickTaken compute.                                     *)

OLD_MAX_CHAT == 50
OLD_INIT_CHAT == 30
OLD_INIT_WINS == 20

badWords ==
  { <<"a","d","m","i","n">>,
    <<"m","o","d","e","r","a","t","o","r">>,
    <<"U0441","U0438","U0441","U0442","U0435","U043C","U0430">>,
    <<"s","y","s","t","e","m">> }

\* broadcastOnlineCount, after the frames of out
broadcastOnlineCount(out, rs) ==
  broadcastAll(out, rs, [type |-> "online_count", count |-> getOnlineCount(rs, 0)])

OldConnect(w) ==
  /\ readyState[w] = "NONE"
  /\ w = FirstFree(readyState)
  /\ LET rs == [readyState EXCEPT ![w] = "OPEN"]
         init == [type |-> "init", clientId |-> nextId,
                  chatHistory |-> sliceLast(chatHistory, OLD_INIT_CHAT),
                  winHistory |-> sliceLast(winHistory, OLD_INIT_WINS),
                  onlineCount |-> getOnlineCount(rs, 0)]
     IN /\ readyState' = rs
        /\ clients' = [clients EXCEPT ![w] =
                         [id |-> nextId, nickname |-> <<>>, registered |-> FALSE,
                          present |-> TRUE]]
        /\ nextId' = nextId + 1
        /\ isAlive' = [isAlive EXCEPT ![w] = TRUE]
        /\ Took(Event("connect", w), broadcastOnlineCount(sendTo(EmptyOut, rs, w, init), rs))
  /\ UNCHANGED <<idle, chatHistory, winHistory, chatCount, winCount, rateLimits, now,
                 broadcastTimer, attempts>>

OldRegister(w, raw) ==
  /\ Receives(w)
  /\ LET client == clients[w]
         nick == sanitizeNick(raw)
         e == [Event("register", w) EXCEPT !.nick = raw]
         refuse(m) == /\ Took(e, sendTo(EmptyOut, readyState, w, RegErr(m)))
                      /\ UNCHANGED <<clients, chatHistory, chatCount>>
     IN IF Len(nick) < NICK_MIN THEN refuse("min2")
        ELSE IF Len(nick) > NICK_MAX THEN refuse("max24")
        ELSE IF isNickTaken(clients, nick, client.id) THEN refuse("taken")
        ELSE IF \E b \in badWords : includes(toLowerCase(nick), b) THEN refuse("forbidden")
        ELSE LET joinMsg == JoinMsg(nick, now, chatCount + 1)
                 ok == [type |-> "register_ok", nickname |-> nick, clientId |-> client.id]
             IN /\ clients' = [clients EXCEPT ![w].nickname = nick, ![w].registered = TRUE]
                /\ chatHistory' = pushBounded(chatHistory, joinMsg, OLD_MAX_CHAT)
                /\ chatCount' = chatCount + 1
                /\ Took(e, broadcastOnlineCount(
                             broadcastAll(sendTo(EmptyOut, readyState, w, ok),
                                          readyState, joinMsg),
                             readyState))
  /\ UNCHANGED <<readyState, idle, winHistory, winCount, rateLimits, now, broadcastTimer,
                 isAlive, nextId, attempts>>

InitOld == ServerInit(FALSE, MaxOldEvents) /\ PbIdle

NextOld ==
  \/ \E w \in Ws : OldConnect(w)
  \/ \E w \in Ws, raw \in NickInputs : OldRegister(w, raw)

SpecOld == InitOld /\ [][NextOld]_vars

\* a register frame of a registered session with another valid, free nickname
Rename(w) ==
  /\ IsEvent("register", w) /\ clients[w].registered
  /\ ValidFreeNick(w, sanitizeNick(ev'.nick))
  /\ sanitizeNick(ev'.nick) # clients[w].nickname

\* C24: in the earlier revision a nickname is immutable once set: a register
\* frame of a registered session with a different valid free nickname is
\* rejected and leaves the nickname and the chat history unchanged.
C24_AsClaimed ==
  [][\A w \in Ws : Rename(w) => /\ clients'[w].nickname = clients[w].nickname
                                /\ chatHistory' = chatHistory
                                /\ (sent'[w] = <<>> \/ sent'[w][1].type # "register_ok")]_vars

\* what that revision does: the session is renamed and announced again
C24_Renamed ==
  [][\A w \in Ws : Rename(w) => /\ clients'[w].nickname = sanitizeNick(ev'.nick)
                                /\ Len(chatHistory') = Len(chatHistory) + 1
                                /\ IsJoin(Last(chatHistory'), sanitizeNick(ev'.nick))
                                /\ sent'[w][1].type = "register_ok"]_vars

\* the one session there is was "Al" and is now "Ev"
C24_Witness ==
  /\ ev.op = "register" /\ ev.nick = <<"E","v">> /\ nextId = 2
  /\ clients["w1"].nickname = <<"E","v">> /\ clients["w1"].id = 1
  /\ Len(chatHistory) = 2
  /\ IsJoin(chatHistory[1], <<"A","l">>) /\ IsJoin(chatHistory[2], <<"E","v">>)


----------------------------------------------------------------------------
(* Admission at the cap: a server with MAX_CLIENTS - 2 open connections,     *)
(* connections that come and go.                                             *)

InitFull == ServerInit(TRUE, MaxFullEvents) /\ PbIdle

NextFull ==
  \/ \E w \in Ws : Connect(w)
  \/ \E w \in Ws : Close(w)
  \/ IdleConnect
  \/ IdleClose

SpecFull == InitFull /\ [][NextFull]_vars

Rejected(w) == sent'[w] = <<CloseFrame(FULL_CODE)>> /\ ~clients'[w].present

\* C25: a new connection is rejected as full only when MAX_CLIENTS admitted
\* sessions exist; rejected and closing connections do not count, so with
\* fewer than MAX_CLIENTS live sessions a new connection is admitted.
C25_AsClaimed ==
  [][\A w \in Ws :
       IsEvent("connect", w)
       => /\ Rejected(w) => clientsSize(clients, idle) = MAX_CLIENTS
          /\ clientsSize(clients, idle) < MAX_CLIENTS => clients'[w].present]_vars

\* what the handler does: it counts the sockets the server tracks, among them
\* those it rejected or terminated and whose close has not completed
C25_CountsSockets ==
  [][\A w \in Ws :
       IsEvent("connect", w)
       => (Rejected(w) <=> wssSize(readyState, idle) >= MAX_CLIENTS)]_vars

\* rejected with 499 sessions: a rejected socket is still closing
C25_Witness ==
  /\ ev.op = "connect" /\ sent[ev.w] = <<CloseFrame(FULL_CODE)>>
  /\ clientsSize(clients, idle) = MAX_CLIENTS - 1
  /\ \E o \in Ws \ {ev.w} : readyState[o] = "CLOSING" /\ ~clients[o].present


----------------------------------------------------------------------------
(* The init frame among all other frames *)

NoInitIn(frames, from) == \A i \in from..Len(frames) : frames[i].type # "init"

\* The session of a socket is created by the connection handler, in the event
\* that sends init; so a socket that has a session has been sent its init.
InitFirst ==
  \A w \in Ws :
    /\ (IsEvent("connect", w) /\ clients'[w].present)
         => /\ sent'[w] # <<>> /\ sent'[w][1].type = "init"
            /\ NoInitIn(sent'[w], 2)
            /\ ~clients[w].present
    /\ ~IsEvent("connect", w)
         => /\ NoInitIn(sent'[w], 1)
            /\ sent'[w] # <<>> => clients[w].present

\* C26: init is sent once to each admitted connection, in the event that
\* admits it, and no frame of a broadcast reaches a connection before that,
\* whatever events of other connections and timers come in between.
C26_InitFirst == [][InitFirst]_vars

\* a second connection gets its init while a registered session is online
C26_Witness ==
  /\ ev.op = "connect" /\ ev.w = "w2"
  /\ Len(sent["w2"]) = 1 /\ sent["w2"][1].type = "init"
  /\ sent["w2"][1].chatHistory # <<>>
  /\ clients["w1"].registered /\ readyState["w1"] = "OPEN" /\ sent["w1"] = <<>>
  /\ broadcastTimer.pending = 1


----------------------------------------------------------------------------
(* The keys of rateLimits: two connections that register, chat and close,    *)
(* frames after the close, the clock and the sweep.                          *)

InitKeys == ServerInit(FALSE, MaxKeyEvents) /\ PbIdle

NextKeys ==
  \/ \E w \in PingWs : Connect(w)
  \/ \E w \in PingWs : Register(w, IF w = "w1" THEN <<"A","l">> ELSE <<"E","v">>)
  \/ \E w \in PingWs : Chat(w, <<"h","<">>)
  \/ \E w \in PingWs : Close(w)
  \/ \E w \in PingWs : LateFrame(w)
  \/ RateSweep
  \/ Tick(TickLong)

SpecKeys == InitKeys /\ [][NextKeys]_vars

SessionOf(cl, id) == {w \in Ws : cl[w].present /\ cl[w].id = id}

\* every key is the id of a registered session of the registry
KeysAreLive ==
  \A id \in DOMAIN rateLimits : \E w \in SessionOf(clients, id) : clients[w].registered

\* the close event of a session leaves no entry for its id
ClosedForgotten ==
  \A w \in Ws : (IsEvent("close", w) /\ clients[w].present)
                  => /\ ~HasRate(rateLimits', clients[w].id)
                     /\ SessionOf(clients', clients[w].id) = {}

\* an id that was handed out and whose session is gone never has a session
\* or an entry again
GoneStaysGone ==
  \A id \in 0..(nextId - 1) :
    SessionOf(clients, id) = {}
      => SessionOf(clients', id) = {} /\ ~HasRate(rateLimits', id)

\* C27: every key of rateLimits is the id of a session that is in the
\* registry and registered; the close event of a session removes its entry,
\* and no entry for the id of a closed session is created afterwards.
C27_RateStateBound == []KeysAreLive /\ [][ClosedForgotten /\ GoneStaysGone]_vars

\* a session that had an entry just closed, while the other session keeps its own
C27_Witness ==
  /\ ev.op = "close"
  /\ \E i, j \in 1..Len(attempts) :
       /\ SessionOf(clients, attempts[i].id) = {}
       /\ ~HasRate(rateLimits, attempts[i].id)
       /\ SessionOf(clients, attempts[j].id) # {}
       /\ HasRate(rateLimits, attempts[j].id)


----------------------------------------------------------------------------
(* The sweep among the chat frames of a session: from the warm start, chat   *)
(* frames, steps of the clock short of, at and past the sweep's cutoff, and  *)
(* sweeps at any point.                                                      *)

SweepEdge == RL_WINDOW * SWEEP_WINDOWS

InitSweep == WarmInit /\ PbIdle

NextSweep ==
  \/ Chat("w1", <<"h","<">>)
  \/ \E d \in {TickShort, SweepEdge, TickLong} : Tick(d)
  \/ RateSweep

SpecSweep == InitSweep /\ [][NextSweep]_vars

\* checkRate called for the attempts 1..i in turn on a map that is never swept
RECURSIVE Replay(_, _)
Replay(log, i) ==
  IF i = 0 THEN [ok |-> TRUE, rl |-> <<>>]
  ELSE checkRate(Replay(log, i - 1).rl, log[i].id, log[i].t)

SameOutcome ==
  \A i \in 1..Len(attempts) : attempts[i].denied <=> ~Replay(attempts, i).ok

\* a sweep deletes the entries whose window started more than 50 s ago and
\* leaves every other entry as it is
SweepsOnlyStale ==
  IsEvent("rl_iv", NoWs) =>
    \A id \in DOMAIN rateLimits :
      IF now - rateLimits[id].t > SweepEdge
      THEN ~HasRate(rateLimits', id)
      ELSE HasRate(rateLimits', id) /\ rateLimits'[id] = rateLimits[id]

\* C28: the sweep deletes an entry only when its window started more than
\* 50 s ago, and the outcome of every chat attempt is the one checkRate gives
\* on a map that is never swept, wherever the sweeps fall in between.
C28_SweepTransparent == []SameOutcome /\ [][SweepsOnlyStale]_vars

\* a sweep has just emptied the map after an attempt was denied
C28_Witness ==
  /\ ev.op = "rl_iv" /\ rateLimits = <<>> /\ now > SweepEdge
  /\ Len(attempts) > RL_MAX_CHAT + 1
  /\ attempts[RL_MAX_CHAT + 1].denied
  /\ ~attempts[Len(attempts)].denied /\ attempts[Len(attempts)].t = SweepEdge


----------------------------------------------------------------------------
(* The guards of a chat frame in their order: from the warm start, chat      *)
(* frames with and without text from the registered session and from a      *)
(* second connection that never registers, and the clock.                    *)

InitGuards == WarmInit /\ PbIdle

NextGuards ==
  \/ Connect("w2")
  \/ \E w \in PingWs, raw \in TextInputs : Chat(w, raw)
  \/ Tick(TickShort)

SpecGuards == InitGuards /\ [][NextGuards]_vars

HistoryKept == chatHistory' = chatHistory /\ chatCount' = chatCount

OnlyReply(w, frame) == sent' = [v \in Ws |-> IF v = w THEN <<frame>> ELSE <<>>]

\* the entry of id after one more frame counted at time t
Counted(rl, id, t) ==
  IF HasRate(rl, id) /\ t - rl[id].t <= RL_WINDOW
  THEN [count |-> rl[id].count + 1, t |-> rl[id].t]
  ELSE [count |-> 1, t |-> t]

ChatGuards ==
  \A w \in Ws :
    IsEvent("chat", w) =>
      LET c == clients[w] IN
      IF ~c.registered
      THEN /\ OnlyReply(w, Err("login_first"))
           /\ rateLimits' = rateLimits
           /\ HistoryKept
      ELSE /\ HasRate(rateLimits', c.id)
           /\ rateLimits'[c.id] = Counted(rateLimits, c.id, now)
           /\ \A id \in DOMAIN rateLimits' \ {c.id} :
                HasRate(rateLimits, id) /\ rateLimits'[id] = rateLimits[id]
           /\ rateLimits'[c.id].count > RL_MAX_CHAT
                => OnlyReply(w, Err("too_many")) /\ HistoryKept

\* C29: a chat frame of an unregistered session is answered with an error and
\* leaves rateLimits as it was; a chat frame of a registered session is
\* counted in its current window whether it is then allowed, denied or
\* dropped for an empty text; a denied frame is answered with an error and
\* nothing is appended or broadcast.
C29_ChatGuardOrder == [][ChatGuards]_vars

\* a frame without text was denied and counted after an earlier denial, with
\* an unregistered connection online that has no entry
C29_Witness ==
  /\ ev.op = "chat" /\ ev.w = "w1" /\ ev.text = <<" ">>
  /\ sent["w1"] = <<Err("too_many")>> /\ sent["w2"] = <<>>
  /\ rateLimits[Al.id].count = RL_MAX_CHAT + 2
  /\ clients["w2"].present /\ ~clients["w2"].registered
  /\ DOMAIN rateLimits = {Al.id}

====
